---- MODULE Spec2Model ----
(***************************************************************************)
(* Session / game lifecycle of the Bingo mini app.                         *)
(*                                                                         *)
(* The repository ships the lifecycle twice: the Node server (server.js:   *)
(* handleCreateSession, handleJoinSession, startGameLoop) and the API      *)
(* route handlers (api/create-session.js and the join-session / draw       *)
(* routes: handler, startGameLoop, startDrawingNumbers, checkForWinners,   *)
(* endGame).  A process runs one of the two; `deployment` says which.      *)
(*                                                                         *)
(* Every handler and every timer callback of the in-memory store awaits    *)
(* only already-resolved promises, so it runs to completion before the     *)
(* next request or timer callback is dispatched: one action per handler    *)
(* or callback.                                                            *)
(***************************************************************************)
EXTENDS Bags, FiniteSets, Integers, Naturals, Sequences, TLC

\* ------------------------------------------------------------------ bounds
\* Draws a session's draw timer may append before the model stops drawing.
MaxDraws == 11
\* Largest balance a deposit request may bring a wallet to.
MaxBalance == 20
\* Event streams a session may have open at a time.
MaxStreams == 1
\* Tokens marked on the card handed to the win evaluator.
MaxMarks == 5
\* ------------------------------------------------------- program constants
maxPlayers == 50
minPlayers == 2
countdownStart == 60
MaxCardsPerPlayer == 3
MaxCardIndex == 19
WinDrawThreshold == 10
AllNumbers == 75
InitialPlayerBalance == 10
DefaultBalance == 10
MinDeposit == 1
MaxDeposit == 10000
MinWithdrawal == 1
MaxWithdrawal == 5000

\* ------------------------------------------------------------------ inputs
\* userIds are opaque strings in the code; the model numbers them.
NamedUsers == {1, 2, 3}
\* An anonymous crowd, one more than a session holds.
Crowd      == 11..(11 + maxPlayers)
\* Session ids: requests may name any of them; the API deployment stores
\* sessions under the first only, the server under all.
SessionIds == {1, 2, 3}
ApiSessionIds == {1}
NoSessionId == 0
\* sessionId of a join body: absent, a stored session, or an unknown one.
SessionArgs == {NoSessionId, 1, 2}

\* cardIndices / cardCost pairs sent by clients (valid, empty, too long,
\* out of range, and a cost that is not the number of cards).
JoinInputs ==
    { [cardIndices |-> <<0>>,          cardCost |-> 1],
      [cardIndices |-> <<0, 1>>,       cardCost |-> 2],
      [cardIndices |-> <<>>,           cardCost |-> 0],
      [cardIndices |-> <<0, 1, 2, 3>>, cardCost |-> 4],
      [cardIndices |-> <<20>>,         cardCost |-> 1] }

\* Outcomes of Math.random() the model explores for the draw column.
\* The API deployment keeps no reservation map, so one valid selection
\* shows every case of its join handler.
ApiJoinInputs == {in \in JoinInputs : in.cardIndices # <<0, 1>>}

DrawColumns == {"B"}

\* Slots of wallet requests in flight (two let two requests overlap).
RequestSlots == {1, 2}
\* userId and amount of wallet request bodies.
WalletUsers == {1}
DepositAmounts == {<<5, 1>>, <<0, 1>>}
WithdrawAmounts == {<<5, 1>>, <<20, 1>>}

VARIABLES
    deployment,        \* "server" (server.js) or "api" (route handlers)
    sessions,          \* global.sessions: stored session id -> session
    cardReservations,  \* global.cardReservations: card index -> userId
    gameLoops,         \* global.gameLoops: ids with a registered game loop
    gameIntervals,     \* live setInterval timers of startGameLoop, per id
    drawIntervals,     \* live setInterval timers of startDrawingNumbers
    resp,              \* the response of the step just taken, if it answers
                       \* a request
    noIdJoined,        \* history: the userIds whose join without a session
                       \* id was answered 200
    userBalances,      \* global.userBalances: userId -> stored amount
    walletRequests,    \* deposit / withdraw requests suspended at their
                       \* setTimeout await, per request slot
    sseConnections,    \* open event streams (each with its interval timer)
                       \* per session id
    card,              \* the card handed to checkCardForWin
    markedNumbers,     \* the marked tokens handed to checkCardForWin
    verdict,           \* what the last call of checkCardForWin came to
    validation,        \* what the last call of validateBingoCard returned
    usedNumbers,       \* the usedNumbers array of generateCompleteDrawSequence
    randomDraw         \* what the last call of generateRandomDraw returned

walletVars == <<userBalances, walletRequests>>
evaluatorVars == <<card, markedNumbers, verdict>>
sequenceVars == <<usedNumbers, randomDraw>>
libraryVars == <<evaluatorVars, validation, sequenceVars>>

vars == <<deployment, sessions, cardReservations, gameLoops,
          gameIntervals, drawIntervals, resp, noIdJoined,
          userBalances, walletRequests, sseConnections,
          card, markedNumbers, verdict, validation, usedNumbers, randomDraw>>

\* ---------------------------------------------------------------- amounts
\* Amounts are exact fractions <<numerator, denominator>>, denominator > 0.
RECURSIVE Gcd(_, _)
Gcd(a, b) == IF b = 0 THEN a ELSE Gcd(b, a % b)

Rat(n, d) == LET g == Gcd(IF n < 0 THEN -n ELSE n, d)
             IN  IF n = 0 THEN <<0, 1>> ELSE <<n \div g, d \div g>>

RatAdd(x, y) == Rat(x[1] * y[2] + y[1] * x[2], x[2] * y[2])
RatSub(x, y) == Rat(x[1] * y[2] - y[1] * x[2], x[2] * y[2])
RatLess(x, y) == x[1] * y[2] < y[1] * x[2]

\* ----------------------------------------------------------------- helpers
Range(s) == {s[i] : i \in 1..Len(s)}

\* A merge that starts the countdown afresh whenever the update puts the
\* session into countdown.
MergeRewindsCountdown(session, updates) ==
    [f \in DOMAIN session |->
        IF f \in DOMAIN updates THEN updates[f]
        ELSE IF /\ f = "countdown"
                /\ "gameState" \in DOMAIN updates
                /\ updates["gameState"] = "countdown"
             THEN countdownStart
             ELSE session[f]]

\* { ...session, ...updates }
Merge(session, updates) ==
    [f \in DOMAIN session |->
        IF f \in DOMAIN updates THEN updates[f] ELSE session[f]]

\* A session that starts out in the countdown.
NewSessionInCountdown(sessionId) ==
    [ id             |-> sessionId,
      players        |-> <<>>,
      drawnNumbers   |-> <<>>,
      gameState      |-> "countdown",
      countdown      |-> countdownStart,
      maxPlayers     |-> maxPlayers,
      minPlayers     |-> minPlayers,
      active         |-> TRUE,
      gameStartedAt  |-> FALSE,
      winners        |-> <<>>,
      prizePerWinner |-> <<0, 1>>,
      finishedAt     |-> FALSE ]

\* The session object literal of createSession / join-session.
\* winners, prizePerWinner, gameStartedAt and finishedAt are absent from the
\* literal; finishedAt = FALSE / gameStartedAt = FALSE stand for "undefined"
\* (winners and prizePerWinner are only ever written together with
\* finishedAt).
NewSession(sessionId) ==
    [ id             |-> sessionId,
      players        |-> <<>>,
      drawnNumbers   |-> <<>>,
      gameState      |-> "waiting",
      countdown      |-> countdownStart,
      maxPlayers     |-> maxPlayers,
      minPlayers     |-> minPlayers,
      active         |-> TRUE,
      gameStartedAt  |-> FALSE,
      winners        |-> <<>>,
      prizePerWinner |-> <<0, 1>>,
      finishedAt     |-> FALSE ]

\* generateSessionId: an id no stored session has.
FreshSessionIds ==
    (IF deployment = "api" THEN ApiSessionIds ELSE SessionIds) \ DOMAIN sessions
generateSessionId == CHOOSE s \in FreshSessionIds : \A t \in FreshSessionIds : s <= t

\* generatePlayerId: an id no player record has (records are never removed).
RECURSIVE SumLen(_, _)
SumLen(S, ids) ==
    IF ids = {} THEN 0
    ELSE LET s == CHOOSE x \in ids : TRUE
         IN  Len(S[s].players) + SumLen(S, ids \ {s})
generatePlayerId == SumLen(sessions, DOMAIN sessions) + 1

NewPlayer(playerId, userId, cardIndices, cardCost) ==
    [ id          |-> playerId,
      userId      |-> userId,
      cardIndices |-> cardIndices,
      cardCost    |-> cardCost,
      balance     |-> <<InitialPlayerBalance, 1>>,
      hasWon      |-> FALSE ]

\* session.players.find(p => p.userId === userId): index or 0.
FindPlayer(players, userId) ==
    IF \E i \in 1..Len(players) : players[i].userId = userId
    THEN CHOOSE i \in 1..Len(players) :
            /\ players[i].userId = userId
            /\ \A j \in 1..(i - 1) : players[j].userId # userId
    ELSE 0

\* updateSession on the in-memory store (the caller has checked presence).
updateSession(S, sessionId, updates) ==
    [S EXCEPT ![sessionId] = Merge(S[sessionId], updates)]

\* ------------------------------------------------- lib/bingo.js: cards
Columns == <<"B", "I", "N", "G", "O">>

\* The 'FREE' marker of the centre cell, a value no column holds.
FREE == 0

\* Column ranges: B 1-15, I 16-30, N 31-45, G 46-60, O 61-75.
ColumnMin(c) == CASE c = "B" -> 1 [] c = "I" -> 16 [] c = "N" -> 31
                  [] c = "G" -> 46 [] c = "O" -> 61
ColumnNumbers(c) == ColumnMin(c)..(ColumnMin(c) + 14)

\* `${randomColumn}${number}`: the letter followed by the decimal number;
\* distinct (letter, number) pairs give distinct strings.
DrawToken(c, n) == <<c, n>>

\* The string 'FREE' of a pattern cell.
FreeToken == <<"FREE", FREE>>

\* generateBingoCard / initializeCardPool: the card of pool index i for one
\* outcome of the shuffles (five values of each column's range, pairwise
\* distinct, then N[2] = 'FREE').
PoolCard(i) ==
    [c \in Range(Columns) |->
        [r \in 1..5 |->
            IF c = "N" /\ r = 3 THEN FREE
            ELSE ColumnMin(c) + ((i + r - 1) % 15)]]

\* The flat cells array of checkCardForWin, indexed from 0: the five cells
\* of B, then of I, N, G, O.
Cells(crd) ==
    [k \in 0..24 |->
        LET col == Columns[(k \div 5) + 1]
            row == k % 5
        IN  [ value  |-> crd[col][row + 1],
              col    |-> col,
              row    |-> row,
              isFree |-> crd[col][row + 1] = FREE ]]

\* What a call comes to: a returned boolean or a thrown ReferenceError.
Returned(v) == [kind |-> "returned", value |-> v]
ReferenceError == [kind |-> "threw", value |-> FALSE]
NoVerdict == [kind |-> "none", value |-> FALSE]

\* The arrow functions handed to checkLineWin are all (i) => i + step.
nextIndex(step, i) == i + step

\* cellIndex of the i-th cell of a line: startIndex + (i === 0 ? 0 :
\* nextIndex(i - 1)).
cellIndex(startIndex, step, i) ==
    startIndex + (IF i = 0 THEN 0 ELSE nextIndex(step, i - 1))

\* The (start, step) pairs of the 12 calls of checkLineWin, in call order:
\* "rows" row * 5 / i + 1, "columns" col / i + 5, the diagonals 0 / i + 6
\* and 4 / i + 4.
LineCalls ==
    [j \in 1..12 |->
        IF j <= 5 THEN [start |-> (j - 1) * 5, step |-> 1]
        ELSE IF j <= 10 THEN [start |-> j - 6, step |-> 5]
        ELSE IF j = 11 THEN [start |-> 0, step |-> 6]
        ELSE [start |-> 4, step |-> 4]]

\* The cells one call of checkLineWin walks, as pattern tokens.
LineTokens(crd, call) ==
    [i \in 1..5 |->
        LET cell == Cells(crd)[cellIndex(call.start, call.step, i - 1)]
        IN  IF cell.isFree THEN FreeToken ELSE DrawToken(cell.col, cell.value)]

\* checkLineWin(cells, startIndex, nextIndex, length).  markedNumbers is not
\* a parameter or local of this function and the module declares no such
\* name: the first cell that is not free makes the call evaluate the
\* identifier, which throws ReferenceError.
checkLineWin(cells, startIndex, step, length) ==
    IF \A i \in 0..(length - 1) : cells[cellIndex(startIndex, step, i)].isFree
    THEN Returned(TRUE)
    ELSE ReferenceError

\* checkCardForWin(card, markedNumbers): the 12 line checks in order; the
\* first that returns true or throws ends the call.
checkCardForWin(crd, marked) ==
    LET result(j) == checkLineWin(Cells(crd), LineCalls[j].start,
                                  LineCalls[j].step, 5)
        decisive  == {j \in 1..12 : result(j) # Returned(FALSE)}
    IN  IF decisive = {} THEN Returned(FALSE)
        ELSE result(CHOOSE j \in decisive : \A k \in decisive : j <= k)

\* getWinningPatterns(card): the cells of the 5 rows, the 5 columns, the
\* main and the anti diagonal.
getWinningPatterns(crd) ==
    LET cellAt(ci, row) ==
            IF crd[Columns[ci]][row] = FREE THEN FreeToken
            ELSE DrawToken(Columns[ci], crd[Columns[ci]][row])
    IN  [j \in 1..12 |->
            IF j <= 5 THEN [i \in 1..5 |-> cellAt(i, j)]
            ELSE IF j <= 10 THEN [i \in 1..5 |-> cellAt(j - 5, i)]
            ELSE IF j = 11 THEN [i \in 1..5 |-> cellAt(i, i)]
            ELSE [i \in 1..5 |-> cellAt(6 - i, i)]]

\* The whole pot shared out, none of it kept back.
calculatePrizePerWinnerWholePot(pot, winnerCount) ==
    IF winnerCount = 0 THEN <<0, 1>> ELSE Rat(pot, winnerCount)

\* calculatePrizePerWinner(totalPot, winnerCount)
calculatePrizePerWinner(pot, winnerCount) ==
    IF winnerCount = 0 THEN <<0, 1>> ELSE Rat(pot * 8, 10 * winnerCount)

\* No call of validateBingoCard yet.
NoValidation == [isValid |-> FALSE, errors |-> {"not validated"}]

\* No call of generateRandomDraw yet.
NoDraw == <<"none", FREE>>

\* null, the return value of generateRandomDraw when no number is left.
Null == <<"null", FREE>>

\* RangeError: generateRandomDraw calls itself without end.
RangeError == <<"RangeError", FREE>>

\* The usedNumbers array is read only through includes and through the
\* length of a filter, neither of which depends on the order of its
\* elements: it is kept as the bag of its elements.
\* usedNumbers.filter(num => num.startsWith(col.letter)).length
usedInColumn(used, letter) ==
    BagCardinality([token \in {t \in DOMAIN used : t[1] = letter} |-> used[token]])

\* columns.filter(col => usedInColumn < 15), in the order of columns.
availableColumns(used) ==
    SelectSeq(Columns, LAMBDA letter : usedInColumn(used, letter) < 15)

\* The numbers of the column whose token is not in usedNumbers, ascending.
RECURSIVE availableNumbersFrom(_, _, _)
availableNumbersFrom(used, letter, num) ==
    IF num > ColumnMin(letter) + 14 THEN <<>>
    ELSE (IF DrawToken(letter, num) \in DOMAIN used THEN <<>> ELSE <<num>>)
         \o availableNumbersFrom(used, letter, num + 1)

\* The numbers of the column, whatever has been used.
availableNumbersOfColumn(used, letter) == availableNumbersFrom(EmptyBag, letter, ColumnMin(letter))

availableNumbers(used, letter) == availableNumbersFrom(used, letter, ColumnMin(letter))

\* Math.floor(Math.random() * length) for a Math.random() that comes out
\* low (index 0 of the array) or high (its last index).
RandomIndex(random, length) == IF random = "low" THEN 1 ELSE length

\* The pairs of outcomes of the two Math.random() calls of one
\* generateRandomDraw that the model follows: the column, then the number.
RandomOutcomes == {<<"low", "high">>, <<"high", "low">>}

\* generateRandomDraw(usedNumbers): what the call can return.  A column
\* picked with no number left makes the function call itself again, which
\* picks a column afresh; when every column it can pick is such a column
\* the calls never end.
generateRandomDraw(used) ==
    LET columns == availableColumns(used)
        randomColumn(random) == columns[RandomIndex(random[1], Len(columns))]
        numbers(random) == availableNumbers(used, randomColumn(random))
        returning == {random \in RandomOutcomes : numbers(random) # <<>>}
    IN  IF columns = <<>> THEN {Null}
        ELSE IF returning = {} THEN {RangeError}
        ELSE {DrawToken(randomColumn(random),
                        numbers(random)[RandomIndex(random[2], Len(numbers(random)))]) :
                random \in returning}

\* ------------------------------------------------------------ the wallet
NoRequest == [op |-> "none"]

\* global.userBalances.get(userId) || 10.00
getUserBalance(B, userId) ==
    IF userId \in DOMAIN B /\ B[userId] # <<0, 1>> THEN B[userId]
    ELSE <<DefaultBalance, 1>>

\* global.userBalances.set(userId, balance)
storeUserBalance(B, userId, balance) ==
    [u \in DOMAIN B \cup {userId} |-> IF u = userId THEN balance ELSE B[u]]

\* What a wallet request is answered with.
WalletResponse(op, status, text, newBalance) ==
    [ op         |-> op,
      status     |-> status,
      text       |-> text,
      newBalance |-> newBalance ]

\* The 400 answer of a withdrawal that exceeds the balance.
InsufficientBalance(currentBalance, requestedAmount) ==
    [ op              |-> "withdraw",
      status          |-> 400,
      text            |-> "Insufficient balance",
      currentBalance  |-> currentBalance,
      requestedAmount |-> requestedAmount ]

NoResp == [op |-> "none"]

\* What a join request is answered with: the HTTP status, the error or
\* message text, and the sessionId, playerId and gameState of the body (0 and
\* "none" where the body has no such field).
Response(status, text, sessionId, playerId, gameState) ==
    [ op        |-> "join",
      status    |-> status,
      text      |-> text,
      sessionId |-> sessionId,
      playerId  |-> playerId,
      gameState |-> gameState ]

\* The process after start-up, before any request.
InitProcess ==
    /\ deployment \in {"server", "api"}
    /\ sessions = << >>
    /\ cardReservations = << >>
    /\ gameLoops = {}
    /\ gameIntervals = [s \in SessionIds |-> 0]
    /\ drawIntervals = [s \in SessionIds |-> 0]
    /\ resp = NoResp
    /\ noIdJoined = {}
    /\ userBalances = << >>
    /\ walletRequests = [r \in RequestSlots |-> NoRequest]
    /\ sseConnections = [s \in SessionIds |-> 0]
    /\ markedNumbers = <<>>
    /\ verdict = NoVerdict
    /\ validation = NoValidation
    /\ usedNumbers = EmptyBag
    /\ randomDraw = NoDraw

Init == InitProcess /\ card = PoolCard(0)

\* ------------------------------------------------------------ API handlers
\* A create-session that starts the wallets afresh.
createSessionHandlerResetsWallet ==
    /\ deployment = "api"
    /\ FreshSessionIds # {}
    /\ LET sessionId == generateSessionId
       IN  /\ sessions' = (sessionId :> NewSession(sessionId)) @@ sessions
           /\ resp' = [op |-> "create", status |-> 200, sessionId |-> sessionId]
    /\ userBalances' = << >>
    /\ UNCHANGED <<walletRequests, sseConnections, libraryVars, deployment, noIdJoined, cardReservations, gameLoops,
                   gameIntervals, drawIntervals>>

\* api/create-session.js handler: storeSession of a new session literal.
createSessionHandler ==
    /\ deployment = "api"
    /\ FreshSessionIds # {}
    /\ LET sessionId == generateSessionId
       IN  /\ sessions' = (sessionId :> NewSession(sessionId)) @@ sessions
           /\ resp' = [op |-> "create", status |-> 200, sessionId |-> sessionId]
    /\ UNCHANGED <<walletVars, sseConnections, libraryVars, deployment, noIdJoined, cardReservations, gameLoops,
                   gameIntervals, drawIntervals>>

\* The capacity test written with > (one player too many gets in).
sessionIsFullOffByOne(session) == Len(session.players) > session.maxPlayers

\* session.players.length >= session.maxPlayers
sessionIsFull(session) == Len(session.players) >= session.maxPlayers

\* The threshold test written with > (the countdown starts one player late).
joinGameStateLate(playerCount, min) ==
    IF playerCount > min THEN "countdown" ELSE "waiting"

\* session.players.length >= session.minPlayers ? 'countdown' : 'waiting'
joinGameState(playerCount, min) ==
    IF playerCount >= min THEN "countdown" ELSE "waiting"

\* The join-session route handler, POST /api/join-session.
joinSessionHandler(userId, in, sessionIdArg) ==
    LET cardIndices == in.cardIndices
        Reject(status, error) ==
            /\ resp' = Response(status, error, 0, 0, "none")
            /\ UNCHANGED <<walletVars, sseConnections, libraryVars, deployment, noIdJoined, sessions, cardReservations, gameLoops,
                           gameIntervals, drawIntervals>>
    IN
    /\ deployment = "api"
    /\ IF Len(cardIndices) = 0 \/ Len(cardIndices) > MaxCardsPerPlayer
       THEN Reject(400, "Must select 1-3 cards")
       ELSE IF \E i \in 1..Len(cardIndices) :
                    cardIndices[i] < 0 \/ cardIndices[i] > MaxCardIndex
       THEN Reject(400, "Invalid card index")
       ELSE IF sessionIdArg # NoSessionId /\ sessionIdArg \notin DOMAIN sessions
       THEN Reject(404, "Session not found")
       ELSE
        LET stored    == sessionIdArg # NoSessionId
            \* without a session id the literal is built here and never stored
            sessionId == IF stored THEN sessionIdArg ELSE NoSessionId
            session   == IF stored THEN sessions[sessionIdArg]
                         ELSE NewSession(NoSessionId)
            existing  == FindPlayer(session.players, userId)
        IN
        IF sessionIsFull(session)
        THEN Reject(400, "Session is full")
        ELSE IF existing # 0
        THEN /\ resp' = Response(200, "Already in session",
                                 sessionId, session.players[existing].id, "none")
             /\ noIdJoined' = IF stored THEN noIdJoined ELSE noIdJoined \cup {userId}
             /\ UNCHANGED <<walletVars, sseConnections, libraryVars, deployment, sessions, cardReservations, gameLoops,
                            gameIntervals, drawIntervals>>
        ELSE IF ~stored
        \* updateSession: getSession finds nothing and throws; the catch answers 500
        THEN Reject(500, "Failed to join session")
        ELSE
            LET playerId == generatePlayerId
                player   == NewPlayer(playerId, userId, cardIndices, in.cardCost)
                players  == Append(session.players, player)
                newState == joinGameState(Len(players), session.minPlayers)
            IN
            /\ sessions' = updateSession(sessions, sessionId,
                               [players |-> players, gameState |-> newState])
            \* startGameLoop(sessionId): one more interval, unconditionally
            /\ gameIntervals' =
                   IF Len(players) = 1 \/ Len(players) = session.minPlayers
                   THEN [gameIntervals EXCEPT ![sessionId] = @ + 1]
                   ELSE gameIntervals
            \* the response reads session.gameState of the object fetched
            \* before updateSession replaced it
            /\ resp' = Response(200, "Joined session successfully",
                                sessionId, playerId, session.gameState)
            /\ UNCHANGED <<walletVars, sseConnections, libraryVars, deployment, noIdJoined, cardReservations, gameLoops, drawIntervals>>

\* ------------------------------------------------------------- API timers
\* endGame without active: false (the timers of a finished game live on).
endGameStaysActive(S, sessionId, winners, prizePerWinner) ==
    IF sessionId \notin DOMAIN S THEN S
    ELSE updateSession(S, sessionId,
            [ gameState      |-> "finished",
              winners        |-> winners,
              prizePerWinner |-> prizePerWinner,
              finishedAt     |-> TRUE ])

\* endGame(sessionId, winners, prizePerWinner) applied to store S.
\* The balance loop runs on the players of the object read before the
\* update; updateSession copies the players array by reference, so the
\* stored session sees the credited player objects.
endGame(S, sessionId, winners, prizePerWinner) ==
    IF sessionId \notin DOMAIN S THEN S
    ELSE
        LET session == S[sessionId]
            \* winners whose find() lands on player p
            Times(p) == Cardinality({i \in 1..Len(winners) :
                                        winners[i].userId = p.userId})
            credited == [i \in 1..Len(session.players) |->
                            LET p == session.players[i]
                            IN  IF FindPlayer(session.players, p.userId) = i
                                   /\ Times(p) > 0
                                THEN [p EXCEPT !.balance =
                                        RatAdd(@, Rat(Times(p) * prizePerWinner[1],
                                                      prizePerWinner[2]))]
                                ELSE p]
        IN  updateSession(S, sessionId,
                [ gameState      |-> "finished",
                  winners        |-> winners,
                  prizePerWinner |-> prizePerWinner,
                  finishedAt     |-> TRUE,
                  active         |-> FALSE,
                  players        |-> credited ])

\* totalPot: sum of player.cardCost.
RECURSIVE totalPot(_)
totalPot(players) ==
    IF players = <<>> THEN 0
    ELSE players[1].cardCost + totalPot(Tail(players))

\* The players the random test of checkForWinners may pick.
Eligible(session) ==
    IF Len(session.drawnNumbers) >= WinDrawThreshold
    THEN {i \in 1..Len(session.players) : ~session.players[i].hasWon}
    ELSE {}

\* The subsequence of s at the indices in I, in order.
RECURSIVE Pick(_, _, _)
Pick(s, I, k) ==
    IF k > Len(s) THEN <<>>
    ELSE (IF k \in I THEN <<s[k]>> ELSE <<>>) \o Pick(s, I, k + 1)

\* checkForWinners(sessionId, lastDraw) applied to store S; lucky is the set
\* of player indices for which Math.random() < 0.1 came out true.
checkForWinners(S, sessionId, lastDraw, lucky) ==
    IF sessionId \notin DOMAIN S \/ ~S[sessionId].active THEN S
    ELSE
        LET session  == S[sessionId]
            pot      == totalPot(session.players)
            won      == lucky \cap Eligible(session)
            \* player.hasWon = true on the stored player objects
            marked   == [i \in 1..Len(session.players) |->
                            IF i \in won
                            THEN [session.players[i] EXCEPT !.hasWon = TRUE]
                            ELSE session.players[i]]
            S1       == [S EXCEPT ![sessionId].players = marked]
            prize    == IF won = {} THEN <<0, 1>>
                        ELSE Rat(pot * 8, 10 * Cardinality(won))
            winners  == Pick([i \in 1..Len(marked) |->
                                [ userId     |-> marked[i].userId,
                                  playerId   |-> marked[i].id,
                                  winningDraw |-> lastDraw,
                                  prize      |-> prize ]], won, 1)
            S2       == IF won # {} THEN endGame(S1, sessionId, winners, prize)
                        ELSE S1
        IN  IF Len(session.drawnNumbers) >= AllNumbers
            THEN endGame(S2, sessionId, <<>>, <<0, 1>>)
            ELSE S2

\* Of the undrawn numbers of a column, all equally likely, the model follows
\* the lowest one.
DrawCandidates(free) == {n \in free : \A m \in free : n <= m}

\* The loop test dropped: every number of the column may come up again.
UndrawnForgetful(drawn, c) == ColumnNumbers(c)

\* The numbers the do-while loop can leave with: those of the column whose
\* token is not in session.drawnNumbers.
Undrawn(drawn, c) ==
    {n \in ColumnNumbers(c) : \A i \in 1..Len(drawn) : drawn[i] # DrawToken(c, n)}

\* The callback without its clearInterval: the timer of a session that is
\* gone or inactive keeps firing.
gameIntervalTickNeverStops(sessionId) ==
    /\ deployment = "api"
    /\ gameIntervals[sessionId] > 0
    /\ resp' = NoResp
    /\ IF sessionId \notin DOMAIN sessions \/ ~sessions[sessionId].active
       THEN /\ gameIntervals' = gameIntervals
            /\ UNCHANGED <<walletVars, sseConnections, libraryVars, deployment, noIdJoined, sessions, cardReservations, gameLoops,
                           drawIntervals>>
       ELSE LET session == sessions[sessionId] IN
            IF session.gameState = "countdown"
            THEN LET newCountdown == session.countdown - 1 IN
                 IF newCountdown <= 0
                 THEN /\ sessions' = updateSession(sessions, sessionId,
                                        [ gameState |-> "playing",
                                          countdown |-> 0,
                                          gameStartedAt |-> TRUE ])
                      \* startDrawingNumbers(sessionId, gameInterval)
                      /\ drawIntervals' = [drawIntervals EXCEPT ![sessionId] = @ + 1]
                      /\ UNCHANGED <<walletVars, sseConnections, libraryVars, deployment, noIdJoined, cardReservations, gameLoops,
                                     gameIntervals>>
                 ELSE /\ sessions' = updateSession(sessions, sessionId,
                                        [countdown |-> newCountdown])
                      /\ UNCHANGED <<walletVars, sseConnections, libraryVars, deployment, noIdJoined, cardReservations, gameLoops,
                                     gameIntervals, drawIntervals>>
            ELSE UNCHANGED <<walletVars, sseConnections, libraryVars, deployment, noIdJoined, sessions, cardReservations, gameLoops,
                             gameIntervals, drawIntervals>>

\* The interval callback of startGameLoop (join-session route).
gameIntervalTick(sessionId) ==
    /\ deployment = "api"
    /\ gameIntervals[sessionId] > 0
    /\ resp' = NoResp
    /\ IF sessionId \notin DOMAIN sessions \/ ~sessions[sessionId].active
       THEN \* clearInterval(gameInterval)
            /\ gameIntervals' = [gameIntervals EXCEPT ![sessionId] = @ - 1]
            /\ UNCHANGED <<walletVars, sseConnections, libraryVars, deployment, noIdJoined, sessions, cardReservations, gameLoops,
                           drawIntervals>>
       ELSE LET session == sessions[sessionId] IN
            IF session.gameState = "countdown"
            THEN LET newCountdown == session.countdown - 1 IN
                 IF newCountdown <= 0
                 THEN /\ sessions' = updateSession(sessions, sessionId,
                                        [ gameState |-> "playing",
                                          countdown |-> 0,
                                          gameStartedAt |-> TRUE ])
                      \* startDrawingNumbers(sessionId, gameInterval)
                      /\ drawIntervals' = [drawIntervals EXCEPT ![sessionId] = @ + 1]
                      /\ UNCHANGED <<walletVars, sseConnections, libraryVars, deployment, noIdJoined, cardReservations, gameLoops,
                                     gameIntervals>>
                 ELSE /\ sessions' = updateSession(sessions, sessionId,
                                        [countdown |-> newCountdown])
                      /\ UNCHANGED <<walletVars, sseConnections, libraryVars, deployment, noIdJoined, cardReservations, gameLoops,
                                     gameIntervals, drawIntervals>>
            ELSE UNCHANGED <<walletVars, sseConnections, libraryVars, deployment, noIdJoined, sessions, cardReservations, gameLoops,
                             gameIntervals, drawIntervals>>

\* The interval callback of startDrawingNumbers.  randomColumn and number
\* are the outcomes of Math.random(); the first disjunct is the do-while loop
\* running its 100 attempts onto drawn numbers, which takes a drawn number
\* in the column.  limit is the number of draws after which the model
\* follows no further draw (75 is no limit).
drawIntervalTickUpTo(sessionId, randomColumn, lucky, limit) ==
    /\ deployment = "api"
    /\ drawIntervals[sessionId] > 0
    /\ resp' = NoResp
    /\ IF \/ sessionId \notin DOMAIN sessions
          \/ ~sessions[sessionId].active
          \/ sessions[sessionId].gameState # "playing"
       THEN \* clearInterval(drawInterval)
            /\ drawIntervals' = [drawIntervals EXCEPT ![sessionId] = @ - 1]
            /\ UNCHANGED <<walletVars, sseConnections, libraryVars, deployment, noIdJoined, sessions, cardReservations, gameLoops,
                           gameIntervals>>
       ELSE LET session == sessions[sessionId]
                free    == Undrawn(session.drawnNumbers, randomColumn)
            IN
            \/ \* attempts >= 100: endGame(sessionId, [], 0); clearInterval
               /\ free # ColumnNumbers(randomColumn)
               /\ sessions' = endGame(sessions, sessionId, <<>>, <<0, 1>>)
               /\ drawIntervals' = [drawIntervals EXCEPT ![sessionId] = @ - 1]
               /\ UNCHANGED <<walletVars, sseConnections, libraryVars, deployment, noIdJoined, cardReservations, gameLoops,
                              gameIntervals>>
            \/ \* a number not drawn yet came up
               /\ free # {}
               /\ Len(session.drawnNumbers) < limit
               /\ \E number \in DrawCandidates(free) :
                     LET draw == DrawToken(randomColumn, number)
                         S1   == updateSession(sessions, sessionId,
                                    [drawnNumbers |-> Append(session.drawnNumbers, draw)])
                     IN  sessions' = checkForWinners(S1, sessionId, draw, lucky)
               /\ UNCHANGED <<walletVars, sseConnections, libraryVars, deployment, noIdJoined, cardReservations, gameLoops,
                              gameIntervals, drawIntervals>>

\* The callback with the model's bound on the number of draws.
drawIntervalTick(sessionId, randomColumn, lucky) ==
    drawIntervalTickUpTo(sessionId, randomColumn, lucky, MaxDraws)

\* --------------------------------------------------------- server handlers
\* server.js handleCreateSession.
handleCreateSession ==
    /\ deployment = "server"
    /\ FreshSessionIds # {}
    /\ LET sessionId == generateSessionId
       IN  /\ sessions' = (sessionId :> NewSession(sessionId)) @@ sessions
           /\ resp' = [op |-> "create", status |-> 200, sessionId |-> sessionId]
    /\ UNCHANGED <<walletVars, sseConnections, libraryVars, deployment, noIdJoined, cardReservations, gameLoops,
                   gameIntervals, drawIntervals>>

\* A map that holds the reservations of the latest request only.
reserveCardsAfresh(R, cardIndices, userId) ==
    [c \in Range(cardIndices) |-> userId]

\* cardIndices.forEach(i => global.cardReservations.set(i, userId))
reserveCards(R, cardIndices, userId) ==
    [c \in DOMAIN R \cup Range(cardIndices) |->
        IF c \in Range(cardIndices) THEN userId ELSE R[c]]

\* One loop that tests and reserves index by index: the free indices of a
\* refused request stay reserved.
checkAndReserveOneLoop(R, cardIndices, userId) ==
    LET taken == \E i \in 1..Len(cardIndices) : cardIndices[i] \in DOMAIN R
    IN  [ taken |-> taken,
          map   |-> [c \in DOMAIN R \cup Range(cardIndices) |->
                        IF c \in DOMAIN R THEN R[c] ELSE userId] ]

\* The availability loop followed by the reservation loop of
\* handleJoinSession: taken says the handler answered 400 at the first loop,
\* map is global.cardReservations when the two loops are done.
checkAndReserve(R, cardIndices, userId) ==
    LET taken == \E i \in 1..Len(cardIndices) : cardIndices[i] \in DOMAIN R
    IN  [ taken |-> taken,
          map   |-> IF taken THEN R ELSE reserveCards(R, cardIndices, userId) ]

\* The lookup key of the join handler; no session is ever stored under it.
DemoSession == NoSessionId

\* server.js handleJoinSession (the body takes no session id).
handleJoinSession(userId, in) ==
    LET cardIndices == in.cardIndices IN
    /\ deployment = "server"
    /\ cardReservations' = checkAndReserve(cardReservations, cardIndices, userId).map
    /\ IF checkAndReserve(cardReservations, cardIndices, userId).taken
       THEN /\ resp' = Response(400, "Card is already taken by another player",
                                0, 0, "none")
            /\ UNCHANGED <<walletVars, sseConnections, libraryVars, deployment, noIdJoined, sessions, gameLoops,
                           gameIntervals, drawIntervals>>
       ELSE
        \* a request that would need a new session id when none is left is
        \* not taken (the bound of the model)
        /\ DemoSession \in DOMAIN sessions \/ FreshSessionIds # {}
        /\ LET found     == DemoSession \in DOMAIN sessions
               sessionId == IF found THEN DemoSession ELSE generateSessionId
               S0        == IF found THEN sessions
                            ELSE (sessionId :> NewSession(sessionId)) @@ sessions
               session   == S0[sessionId]
               existing  == FindPlayer(session.players, userId)
           IN
           IF existing # 0
           THEN /\ sessions' = S0
                /\ resp' = Response(200, "Already in session",
                                    sessionId, session.players[existing].id, "none")
                /\ noIdJoined' = noIdJoined \cup {userId}
                /\ UNCHANGED <<walletVars, sseConnections, libraryVars, deployment, gameLoops, gameIntervals, drawIntervals>>
           ELSE
               LET playerId == generatePlayerId
                   player   == NewPlayer(playerId, userId, cardIndices, in.cardCost)
                   players  == Append(session.players, player)
                   newGameState == joinGameState(Len(players), session.minPlayers)
                   start    == newGameState = "countdown" /\ sessionId \notin gameLoops
               IN
               /\ sessions' = updateSession(S0, sessionId,
                                  [players |-> players, gameState |-> newGameState])
               \* startGameLoop(sessionId): setInterval and gameLoops.set
               /\ gameLoops' = IF start THEN gameLoops \cup {sessionId} ELSE gameLoops
               /\ gameIntervals' = IF start
                                   THEN [gameIntervals EXCEPT ![sessionId] = @ + 1]
                                   ELSE gameIntervals
               /\ resp' = Response(200, "Joined session successfully",
                                   sessionId, playerId, newGameState)
               /\ noIdJoined' = noIdJoined \cup {userId}
               /\ UNCHANGED <<walletVars, sseConnections, libraryVars, deployment, drawIntervals>>

\* ------------------------------------------------------- wallet handlers
\* The variables of the game, which no wallet or stream handler writes.
gameVars == <<deployment, sessions, cardReservations, gameLoops,
              gameIntervals, drawIntervals, noIdJoined>>

\* A request of the body {userId, amount} suspended at its setTimeout await;
\* currentBalance is the local read before the await (0 where the handler
\* reads after it).
Suspended(op, userId, amount, currentBalance) ==
    [ op             |-> op,
      userId         |-> userId,
      amount         |-> amount,
      currentBalance |-> currentBalance ]

\* The model takes a deposit only while it keeps the wallet within MaxBalance.
WithinMaxBalance(userId, amount) ==
    ~RatLess(<<MaxBalance, 1>>, RatAdd(getUserBalance(userBalances, userId), amount))

\* server.js handleDeposit up to its await: the body check.
handleDeposit(slot, userId, amount) ==
    /\ deployment = "server"
    /\ walletRequests[slot] = NoRequest
    /\ IF amount[1] <= 0
       THEN /\ resp' = WalletResponse("deposit", 400, "Invalid request body", <<0, 1>>)
            /\ UNCHANGED walletRequests
       ELSE /\ WithinMaxBalance(userId, amount)
            /\ walletRequests' = [walletRequests EXCEPT ![slot] =
                                     Suspended("deposit", userId, amount, <<0, 1>>)]
            /\ resp' = NoResp
    /\ UNCHANGED <<gameVars, userBalances, sseConnections, libraryVars>>

\* server.js handleDeposit after the 2 s delay: read, add, store, answer.
handleDepositAfterDelay(slot) ==
    /\ deployment = "server"
    /\ walletRequests[slot].op = "deposit"
    /\ LET req            == walletRequests[slot]
           currentBalance == RatAdd(getUserBalance(userBalances, req.userId), req.amount)
       IN  /\ userBalances' = storeUserBalance(userBalances, req.userId, currentBalance)
           /\ resp' = WalletResponse("deposit", 200, "Deposit successful (mock)",
                                     currentBalance)
    /\ walletRequests' = [walletRequests EXCEPT ![slot] = NoRequest]
    /\ UNCHANGED <<gameVars, sseConnections, libraryVars>>

\* server.js handleWithdraw up to its await: the body check, the balance
\* read and the sufficiency test.
handleWithdraw(slot, userId, amount) ==
    /\ deployment = "server"
    /\ walletRequests[slot] = NoRequest
    /\ LET currentBalance == getUserBalance(userBalances, userId) IN
       IF amount[1] <= 0
       THEN /\ resp' = WalletResponse("withdraw", 400, "Invalid request body", <<0, 1>>)
            /\ UNCHANGED walletRequests
       ELSE IF RatLess(currentBalance, amount)
       THEN /\ resp' = InsufficientBalance(currentBalance, amount)
            /\ UNCHANGED walletRequests
       ELSE /\ walletRequests' = [walletRequests EXCEPT ![slot] =
                                     Suspended("withdraw", userId, amount, currentBalance)]
            /\ resp' = NoResp
    /\ UNCHANGED <<gameVars, userBalances, sseConnections, libraryVars>>

\* server.js handleWithdraw after the 3 s delay: subtract from the balance
\* read before the delay, store, answer.
handleWithdrawAfterDelay(slot) ==
    /\ deployment = "server"
    /\ walletRequests[slot].op = "withdraw"
    /\ LET req            == walletRequests[slot]
           currentBalance == RatSub(req.currentBalance, req.amount)
       IN  /\ userBalances' = storeUserBalance(userBalances, req.userId, currentBalance)
           /\ resp' = WalletResponse("withdraw", 200, "Withdrawal successful (mock)",
                                     currentBalance)
    /\ walletRequests' = [walletRequests EXCEPT ![slot] = NoRequest]
    /\ UNCHANGED <<gameVars, sseConnections, libraryVars>>

\* api/wallet/deposit.js handler up to its await: the checks and the
\* balance read.
depositHandler(slot, userId, amount) ==
    LET Reject(error) ==
            /\ resp' = WalletResponse("deposit", 400, error, <<0, 1>>)
            /\ UNCHANGED walletRequests
    IN
    /\ deployment = "api"
    /\ walletRequests[slot] = NoRequest
    /\ IF amount[1] <= 0
       THEN Reject("Amount must be greater than 0")
       ELSE IF RatLess(amount, <<MinDeposit, 1>>)
       THEN Reject("Minimum deposit amount is 1.00 ETB")
       ELSE IF RatLess(<<MaxDeposit, 1>>, amount)
       THEN Reject("Maximum deposit amount is 10,000 ETB")
       ELSE /\ WithinMaxBalance(userId, amount)
            /\ walletRequests' = [walletRequests EXCEPT ![slot] =
                                     Suspended("deposit", userId, amount,
                                               getUserBalance(userBalances, userId))]
            /\ resp' = NoResp
    /\ UNCHANGED <<gameVars, userBalances, sseConnections, libraryVars>>

\* The deposit completed on the balance as it is after the delay.
depositHandlerAfterDelayRereads(slot) ==
    /\ deployment = "api"
    /\ walletRequests[slot].op = "deposit"
    /\ LET req            == walletRequests[slot]
           currentBalance == RatAdd(getUserBalance(userBalances, req.userId), req.amount)
       IN  /\ userBalances' = storeUserBalance(userBalances, req.userId, currentBalance)
           /\ resp' = WalletResponse("deposit", 200, "Deposit successful (mock)",
                                     currentBalance)
    /\ walletRequests' = [walletRequests EXCEPT ![slot] = NoRequest]
    /\ UNCHANGED <<gameVars, sseConnections, libraryVars>>

\* api/wallet/deposit.js handler after the 2 s delay: add to the balance
\* read before the delay, store, answer.
depositHandlerAfterDelay(slot) ==
    /\ deployment = "api"
    /\ walletRequests[slot].op = "deposit"
    /\ LET req            == walletRequests[slot]
           currentBalance == RatAdd(req.currentBalance, req.amount)
       IN  /\ userBalances' = storeUserBalance(userBalances, req.userId, currentBalance)
           /\ resp' = WalletResponse("deposit", 200, "Deposit successful (mock)",
                                     currentBalance)
    /\ walletRequests' = [walletRequests EXCEPT ![slot] = NoRequest]
    /\ UNCHANGED <<gameVars, sseConnections, libraryVars>>

\* The withdraw route handler up to its await.
withdrawHandler(slot, userId, amount) ==
    LET currentBalance == getUserBalance(userBalances, userId)
        Reject(error) ==
            /\ resp' = WalletResponse("withdraw", 400, error, <<0, 1>>)
            /\ UNCHANGED walletRequests
    IN
    /\ deployment = "api"
    /\ walletRequests[slot] = NoRequest
    /\ IF amount[1] <= 0
       THEN Reject("Amount must be greater than 0")
       ELSE IF RatLess(amount, <<MinWithdrawal, 1>>)
       THEN Reject("Minimum withdrawal amount is 1.00 ETB")
       ELSE IF RatLess(<<MaxWithdrawal, 1>>, amount)
       THEN Reject("Maximum withdrawal amount is 5,000 ETB per transaction")
       ELSE IF RatLess(currentBalance, amount)
       THEN /\ resp' = InsufficientBalance(currentBalance, amount)
            /\ UNCHANGED walletRequests
       ELSE /\ walletRequests' = [walletRequests EXCEPT ![slot] =
                                     Suspended("withdraw", userId, amount, currentBalance)]
            /\ resp' = NoResp
    /\ UNCHANGED <<gameVars, userBalances, sseConnections, libraryVars>>

\* The withdraw route handler after the 3 s delay.
withdrawHandlerAfterDelay(slot) ==
    /\ deployment = "api"
    /\ walletRequests[slot].op = "withdraw"
    /\ LET req            == walletRequests[slot]
           currentBalance == RatSub(req.currentBalance, req.amount)
       IN  /\ userBalances' = storeUserBalance(userBalances, req.userId, currentBalance)
           /\ resp' = WalletResponse("withdraw", 200, "Withdrawal successful (mock)",
                                     currentBalance)
    /\ walletRequests' = [walletRequests EXCEPT ![slot] = NoRequest]
    /\ UNCHANGED <<gameVars, sseConnections, libraryVars>>

\* ------------------------------------------------------------ event streams
\* sendSSE(res, eventType, data): the event written to a stream of the
\* session; ended says that the callback went on to res.end().
sendSSE(sessionId, eventType, data, ended) ==
    [ op        |-> "sse",
      sessionId |-> sessionId,
      event     |-> eventType,
      data      |-> data,
      ended     |-> ended ]

\* The data of the 'session' event, the snapshot sent when a stream opens.
SessionSnapshot(session) ==
    [ sessionId    |-> session.id,
      gameState    |-> session.gameState,
      countdown    |-> session.countdown,
      drawnNumbers |-> session.drawnNumbers,
      playerCount  |-> Len(session.players) ]

\* A stream that is closed and keeps its timers and its place in the list.
closeStreamKeepsTimers(connections, sessionId) == connections

\* The end of a stream: clearInterval of its timers, its removal from the
\* session's connection list (server.js) and res.end().
closeStream(connections, sessionId) ==
    [connections EXCEPT ![sessionId] = @ - 1]

\* GET /api/draw of either deployment: 404 for an unknown session, else the
\* stream is opened, the 'session' event written and the interval timer
\* started (the server also pushes the response onto global.sseConnections).
Subscribe(sessionId) ==
    /\ IF sessionId \notin DOMAIN sessions
       THEN /\ resp' = [op |-> "subscribe", status |-> 404, sessionId |-> sessionId]
            /\ UNCHANGED sseConnections
       ELSE /\ sseConnections[sessionId] < MaxStreams
            /\ sseConnections' = [sseConnections EXCEPT ![sessionId] = @ + 1]
            /\ resp' = sendSSE(sessionId, "session",
                               SessionSnapshot(sessions[sessionId]), FALSE)
    /\ UNCHANGED <<gameVars, walletVars, libraryVars>>

\* The draw route handler.
drawHandler(sessionId) == deployment = "api" /\ Subscribe(sessionId)

\* server.js handleDrawSSE.
handleDrawSSE(sessionId) == deployment = "server" /\ Subscribe(sessionId)

\* The sessionMonitor callback of a stream of the draw route.  A session
\* that is gone or inactive ends the stream with a 'gameEnd' event that
\* carries a reason; otherwise the callback writes 'countdown' or
\* 'gameState', or, for a finished session, 'gameEnd' with the winners and
\* ends the stream.  Nothing is stored.
sessionMonitorTick(sessionId) ==
    /\ deployment = "api"
    /\ sseConnections[sessionId] > 0
    /\ IF sessionId \notin DOMAIN sessions \/ ~sessions[sessionId].active
       THEN /\ resp' = sendSSE(sessionId, "gameEnd",
                               [reason |-> "Session ended", finishedAt |-> TRUE],
                               TRUE)
            /\ sseConnections' = closeStream(sseConnections, sessionId)
       ELSE LET currentSession == sessions[sessionId] IN
            IF currentSession.gameState = "countdown"
            THEN /\ resp' = sendSSE(sessionId, "countdown",
                                [ countdown |-> currentSession.countdown,
                                  gameState |-> currentSession.gameState ], FALSE)
                 /\ UNCHANGED sseConnections
            ELSE IF currentSession.gameState = "playing"
            THEN /\ resp' = sendSSE(sessionId, "gameState",
                                [ gameState    |-> currentSession.gameState,
                                  drawnNumbers |-> currentSession.drawnNumbers,
                                  playerCount  |-> Len(currentSession.players) ],
                                FALSE)
                 /\ UNCHANGED sseConnections
            ELSE IF currentSession.gameState = "finished"
            THEN /\ resp' = sendSSE(sessionId, "gameEnd",
                                [ winners        |-> currentSession.winners,
                                  prizePerWinner |-> currentSession.prizePerWinner,
                                  totalPot       |-> totalPot(currentSession.players),
                                  finishedAt     |-> currentSession.finishedAt ],
                                TRUE)
                 /\ sseConnections' = closeStream(sseConnections, sessionId)
            ELSE /\ resp' = NoResp
                 /\ UNCHANGED sseConnections
    /\ UNCHANGED <<gameVars, walletVars, libraryVars>>

\* The interval callback of a stream of server.js handleDrawSSE: the stream
\* is ended with 'gameEnd' when the session is gone or inactive; in the
\* countdown a 'countdown' event is written; while the session is playing a
\* random token is drawn and, unless already drawn, appended and written as
\* a 'draw' event to this stream.
sseIntervalTick(sessionId, randomColumn, number) ==
    /\ deployment = "server"
    /\ sseConnections[sessionId] > 0
    /\ IF sessionId \notin DOMAIN sessions \/ ~sessions[sessionId].active
       THEN /\ resp' = sendSSE(sessionId, "gameEnd",
                               [reason |-> "Session ended"], TRUE)
            /\ sseConnections' = closeStream(sseConnections, sessionId)
            /\ UNCHANGED sessions
       ELSE /\ UNCHANGED sseConnections
            /\ LET currentSession == sessions[sessionId]
                   draw           == DrawToken(randomColumn, number)
                   drawnNumbers   == Append(currentSession.drawnNumbers, draw)
               IN  IF currentSession.gameState = "countdown"
                   THEN /\ resp' = sendSSE(sessionId, "countdown",
                                      [ countdown |-> currentSession.countdown,
                                        gameState |-> currentSession.gameState ],
                                      FALSE)
                        /\ UNCHANGED sessions
                   ELSE IF /\ currentSession.gameState = "playing"
                           /\ draw \notin Range(currentSession.drawnNumbers)
                   THEN /\ sessions' = updateSession(sessions, sessionId,
                                          [drawnNumbers |-> drawnNumbers])
                        /\ resp' = sendSSE(sessionId, "draw",
                                      [ draw |-> draw,
                                        drawnNumbers |-> drawnNumbers ], FALSE)
                   ELSE /\ resp' = NoResp
                        /\ UNCHANGED sessions
    /\ UNCHANGED <<deployment, cardReservations, gameLoops, gameIntervals,
                   drawIntervals, noIdJoined, walletVars, libraryVars>>

\* req.on('close'): the client of a stream goes away; the timers of the
\* stream are cleared (and the server takes it off the connection list).
clientClose(sessionId) ==
    /\ sseConnections[sessionId] > 0
    /\ sseConnections' = closeStream(sseConnections, sessionId)
    /\ resp' = NoResp
    /\ UNCHANGED <<gameVars, walletVars, libraryVars>>

\* ------------------------------------------------------- the win evaluator
\* A token is marked (appended to the array handed to checkCardForWin).
mark(token) ==
    /\ Len(markedNumbers) < MaxMarks
    /\ token \notin Range(markedNumbers)
    /\ markedNumbers' = Append(markedNumbers, token)
    /\ verdict' = NoVerdict
    /\ UNCHANGED <<gameVars, walletVars, sseConnections, resp, card,
                   validation, sequenceVars>>

\* checkCardForWin(card, markedNumbers) is called.
evaluate ==
    /\ verdict = NoVerdict
    /\ verdict' = checkCardForWin(card, markedNumbers)
    /\ UNCHANGED <<gameVars, walletVars, sseConnections, resp, card, markedNumbers,
                   validation, sequenceVars>>

\* ------------------------------------------------------------------- specs
Lucky == SUBSET (1..Cardinality(NamedUsers))

Next ==
    \/ createSessionHandler
    \/ \E u \in NamedUsers, in \in ApiJoinInputs, s \in SessionArgs :
          joinSessionHandler(u, in, s)
    \/ \E s \in SessionIds : gameIntervalTick(s)
    \/ \E s \in SessionIds, c \in DrawColumns, lucky \in Lucky :
          drawIntervalTick(s, c, lucky)
    \/ handleCreateSession
    \/ \E u \in NamedUsers, in \in JoinInputs : handleJoinSession(u, in)

Spec == Init /\ [][Next]_vars

\* The server deployment alone.
InitServer == Init /\ deployment = "server"

NextServer ==
    \/ handleCreateSession
    \/ \E u \in NamedUsers, in \in JoinInputs : handleJoinSession(u, in)

SpecServer == InitServer /\ [][NextServer]_vars

\* A session filled to capacity.  The crowd joins session 1 in the order of
\* its numbers (the order of arrival of interchangeable users), its first
\* member may ask again at any time, and no winner comes up.
NextCrowdMember ==
    IF 1 \in DOMAIN sessions
    THEN 11 + Cardinality({i \in 1..Len(sessions[1].players) :
                              sessions[1].players[i].userId \in Crowd})
    ELSE 11

CrowdInput == [cardIndices |-> <<0>>, cardCost |-> 1]

NextFull ==
    \/ createSessionHandler
    \/ \E u \in {11, NextCrowdMember} \cap Crowd : joinSessionHandler(u, CrowdInput, 1)
    \/ \E s \in ApiSessionIds : gameIntervalTick(s)
    \/ \E s \in ApiSessionIds, c \in DrawColumns : drawIntervalTick(s, c, {})
    \/ handleCreateSession
    \/ \E u \in NamedUsers, in \in JoinInputs : handleJoinSession(u, in)

SpecFull == Init /\ [][NextFull]_vars

\* The wallet and the event streams next to the game: two users, one
\* selection, one wallet user, one wallet request at a time.
WalletInput == [cardIndices |-> <<0>>, cardCost |-> 1]
WalletPlayers == {1, 2}
WalletSlots == {1}

NextWallet ==
    \/ createSessionHandler
    \/ \E u \in WalletPlayers : joinSessionHandler(u, WalletInput, 1)
    \/ \E s \in ApiSessionIds : gameIntervalTick(s)
    \/ \E s \in ApiSessionIds, c \in DrawColumns, lucky \in SUBSET {1, 2} :
          drawIntervalTick(s, c, lucky)
    \/ handleCreateSession
    \/ \E u \in WalletPlayers : handleJoinSession(u, WalletInput)
    \/ \E r \in WalletSlots, u \in WalletUsers, a \in DepositAmounts :
          handleDeposit(r, u, a)
    \/ \E r \in WalletSlots : handleDepositAfterDelay(r)
    \/ \E r \in WalletSlots, u \in WalletUsers, a \in WithdrawAmounts :
          handleWithdraw(r, u, a)
    \/ \E r \in WalletSlots : handleWithdrawAfterDelay(r)
    \/ \E r \in WalletSlots, u \in WalletUsers, a \in DepositAmounts :
          depositHandler(r, u, a)
    \/ \E r \in WalletSlots : depositHandlerAfterDelay(r)
    \/ \E r \in WalletSlots, u \in WalletUsers, a \in WithdrawAmounts :
          withdrawHandler(r, u, a)
    \/ \E r \in WalletSlots : withdrawHandlerAfterDelay(r)
    \/ \E s \in ApiSessionIds : drawHandler(s)
    \/ \E s \in ApiSessionIds : sessionMonitorTick(s)
    \/ \E s \in ApiSessionIds : handleDrawSSE(s)
    \/ \E s \in ApiSessionIds, c \in DrawColumns :
          \E n \in ColumnNumbers(c) : sseIntervalTick(s, c, n)
    \/ \E s \in ApiSessionIds : clientClose(s)

SpecWallet == Init /\ [][NextWallet]_vars

\* A whole game of the API deployment, all 75 numbers.  Of the outcomes of
\* Math.random() the model follows, for the column, the first column that
\* has an undrawn number and every column that has none.
ExhaustedColumns(drawn) == {c \in Range(Columns) : Undrawn(drawn, c) = {}}

GameColumns(drawn) ==
    UNION { exhausted \cup
            {Columns[i] : i \in {j \in 1..5 :
                /\ Columns[j] \notin exhausted
                /\ \A k \in 1..(j - 1) : Columns[k] \in exhausted}} :
            exhausted \in {ExhaustedColumns(drawn)} }

InitGame == Init /\ deployment = "api"

drawStep(s) ==
    \E c \in GameColumns(IF s \in DOMAIN sessions
                         THEN sessions[s].drawnNumbers ELSE <<>>),
       lucky \in SUBSET {1, 2} :
        drawIntervalTickUpTo(s, c, lucky, AllNumbers)

NextGame ==
    \/ createSessionHandler
    \/ \E u \in WalletPlayers : joinSessionHandler(u, WalletInput, 1)
    \/ \E s \in ApiSessionIds : gameIntervalTick(s)
    \/ \E s \in ApiSessionIds : drawStep(s)

SpecGame == InitGame /\ [][NextGame]_vars

\* The timers keep firing: a live interval's callback is run again and again.
SpecGameLive ==
    /\ SpecGame
    /\ \A s \in ApiSessionIds : WF_vars(gameIntervalTick(s)) /\ WF_vars(drawStep(s))

\* The win evaluator alone: a card of the pool, tokens marked one by one.
TestCards == {PoolCard(0), PoolCard(3)}
MarkTokens ==
    {DrawToken("B", n) : n \in 1..5} \cup {DrawToken("I", 16), DrawToken("O", 61)}

InitWin ==
    /\ InitProcess
    /\ deployment = "api"
    /\ card \in TestCards

NextWin ==
    \/ \E t \in MarkTokens : mark(t)
    \/ evaluate

SpecWin == InitWin /\ [][NextWin]_vars

\* ------------------------------------------------------------- properties
Rank(gameState) ==
    CASE gameState = "waiting"   -> 0
      [] gameState = "countdown" -> 1
      [] gameState = "playing"   -> 2
      [] gameState = "finished"  -> 3

AllUsers == NamedUsers \cup Crowd

\* 1 <= |cardIndices| <= 3 and every index in 0..19.
ValidSelection(in) ==
    /\ Len(in.cardIndices) >= 1
    /\ Len(in.cardIndices) <= 3
    /\ \A i \in 1..Len(in.cardIndices) : in.cardIndices[i] \in 0..19

\* A join request handled by whichever deployment runs; the server's body
\* carries no session id.
JoinStep(userId, in, sessionIdArg) ==
    \/ joinSessionHandler(userId, in, sessionIdArg)
    \/ sessionIdArg = NoSessionId /\ handleJoinSession(userId, in)

InSession(S, sessionId, userId) ==
    \E i \in 1..Len(S[sessionId].players) : S[sessionId].players[i].userId = userId

\* The player records of a user, over all sessions.
RecordsOf(S, userId) ==
    UNION { { <<s, i>> : i \in {j \in 1..Len(S[s].players) :
                                    S[s].players[j].userId = userId} } :
            s \in DOMAIN S }

\* C1: gameState only moves forward along waiting -> countdown -> playing
\* -> finished; no step (a later join in particular) takes a session to an
\* earlier state.
C1_ForwardOnly ==
    [][\A s \in DOMAIN sessions :
          Rank(sessions'[s].gameState) >= Rank(sessions[s].gameState)]_vars

\* C2: after a user's join without a session id has succeeded, another
\* user's acceptable join without a session id succeeds and puts both in
\* one session record.
C2_CanonicalSession ==
    [][\A a \in noIdJoined, b \in NamedUsers, in \in JoinInputs :
          ( /\ a # b
            /\ ValidSelection(in)
            /\ \A c \in Range(in.cardIndices) : c \notin DOMAIN cardReservations
            /\ JoinStep(b, in, NoSessionId) )
          => /\ resp'.status = 200
             /\ \E s \in DOMAIN sessions' :
                   InSession(sessions', s, a) /\ InSession(sessions', s, b)]_vars

\* C3: the join that gives a session its first player leaves it waiting; the
\* join that gives it its second player makes it countdown with countdown 60.
C3_JoinThresholds ==
    [][\A s \in DOMAIN sessions' :
          LET before == IF s \in DOMAIN sessions THEN Len(sessions[s].players) ELSE 0
              after  == Len(sessions'[s].players)
          IN  (after = before + 1 /\ sessions'[s].minPlayers = 2) =>
                /\ after = 1 => sessions'[s].gameState = "waiting"
                /\ after = 2 => /\ sessions'[s].gameState = "countdown"
                                /\ sessions'[s].countdown = 60]_vars

\* Reached: the second player has just joined (answered 200 with that
\* player's id) and the session is in countdown at 60.
C3_Witness ==
    \E s \in DOMAIN sessions :
        /\ Len(sessions[s].players) = 2
        /\ sessions[s].gameState = "countdown"
        /\ sessions[s].countdown = 60
        /\ resp.op = "join"
        /\ resp.status = 200
        /\ resp.playerId = sessions[s].players[2].id

\* C4: a join by a user who already has a player record in the session asked
\* for is answered 200 with that record's player id, adds no player record
\* and no reservation.
C4_IdempotentJoin ==
    [][\A u \in AllUsers, in \in JoinInputs, a \in SessionArgs :
          LET mine == IF a = NoSessionId
                      THEN (IF u \in noIdJoined THEN RecordsOf(sessions, u) ELSE {})
                      ELSE {r \in RecordsOf(sessions, u) : r[1] = a}
          IN  (mine # {} /\ JoinStep(u, in, a)) =>
                /\ resp'.status = 200
                /\ \E r \in mine : resp'.playerId = sessions[r[1]].players[r[2]].id
                /\ RecordsOf(sessions', u) = RecordsOf(sessions, u)
                /\ cardReservations' = cardReservations]_vars

\* C5: a join whose selection is empty, longer than 3 or has an index
\* outside 0..19 is answered 400 and changes neither the reservation map nor
\* any session.
C5_ValidationFirst ==
    [][\A u \in AllUsers, in \in JoinInputs, a \in SessionArgs :
          (~ValidSelection(in) /\ JoinStep(u, in, a)) =>
              /\ resp'.status = 400
              /\ UNCHANGED <<sessions, cardReservations>>]_vars

\* No card-pool index is in the player records of two different users.
NoSharedCard(S) ==
    \A s \in DOMAIN S, t \in DOMAIN S :
        \A i \in 1..Len(S[s].players), j \in 1..Len(S[t].players) :
            S[s].players[i].userId # S[t].players[j].userId =>
                Range(S[s].players[i].cardIndices)
                    \cap Range(S[t].players[j].cardIndices) \cap (0..19) = {}

\* C6: a join asking for a card index reserved by a different user is
\* answered 400, and no card-pool index is ever held by the player records
\* of two different users.
C6_CardExclusive ==
    [][/\ NoSharedCard(sessions')
       /\ \A u \in AllUsers, in \in JoinInputs, a \in SessionArgs :
             ( /\ \E c \in Range(in.cardIndices) :
                     c \in DOMAIN cardReservations /\ cardReservations[c] # u
               /\ JoinStep(u, in, a) )
             => resp'.status = 400]_vars

\* C7: a join request of the server either leaves every requested index
\* reserved by the requesting user together with a new player record of
\* that user, or produces no player record and leaves the reservation map
\* as it was.
C7_AllOrNothing ==
    [][\A u \in NamedUsers, in \in JoinInputs :
          handleJoinSession(u, in) =>
              LET new == RecordsOf(sessions', u) # RecordsOf(sessions, u)
              IN  \/ /\ new
                     /\ \A c \in Range(in.cardIndices) :
                           c \in DOMAIN cardReservations' /\ cardReservations'[c] = u
                  \/ /\ ~new
                     /\ cardReservations' = cardReservations]_vars

\* Reached: a join has just been refused for a taken card while card 0 is
\* reserved and card 1, asked for together with it by one of the requests,
\* is not.
C7_Witness ==
    /\ deployment = "server"
    /\ resp.op = "join"
    /\ resp.status = 400
    /\ 0 \in DOMAIN cardReservations
    /\ 1 \notin DOMAIN cardReservations

\* C8: no session holds more than maxPlayers players, and a valid join into
\* a session that holds maxPlayers players is answered 400 "Session is full"
\* and leaves its player list as it was.
C8_Capacity ==
    [][/\ \A s \in DOMAIN sessions' :
             Len(sessions'[s].players) <= sessions'[s].maxPlayers
       /\ \A s \in DOMAIN sessions :
             ( /\ Len(sessions[s].players) = sessions[s].maxPlayers
               /\ \E u \in AllUsers, in \in JoinInputs :
                     ValidSelection(in) /\ joinSessionHandler(u, in, s) )
             => /\ resp'.status = 400
                /\ resp'.text = "Session is full"
                /\ sessions'[s].players = sessions[s].players]_vars

\* Reached: a join has just been refused by a session holding 50 players.
C8_Witness ==
    /\ resp.op = "join"
    /\ resp.status = 400
    /\ resp.text = "Session is full"
    /\ \E s \in DOMAIN sessions : Len(sessions[s].players) = 50

\* C9: a session never has more than one live game-loop timer, nor more
\* than one live draw timer.
C9_OneTimerPerSession ==
    \A s \in SessionIds : gameIntervals[s] <= 1 /\ drawIntervals[s] <= 1

\* C10: a game-loop tick of a session in countdown lowers countdown by
\* exactly 1; the session turns playing exactly at the tick that brings
\* countdown to 0, and that tick records gameStartedAt and starts the draw
\* timer.
C10_CountdownTicks ==
    [][\A s \in DOMAIN sessions :
          /\ ( /\ sessions[s].active
               /\ sessions[s].gameState = "countdown"
               /\ gameIntervalTick(s) )
             => /\ sessions'[s].countdown = sessions[s].countdown - 1
                /\ (sessions'[s].gameState = "playing") <=> (sessions'[s].countdown = 0)
                /\ sessions'[s].gameState = "playing" =>
                      /\ sessions'[s].gameStartedAt
                      /\ drawIntervals'[s] = drawIntervals[s] + 1
          /\ ( /\ sessions[s].gameState # "playing"
               /\ sessions'[s].gameState = "playing" )
             => /\ sessions[s].countdown = 1
                /\ gameIntervalTick(s)]_vars

\* C11: in every reachable state no session's drawnNumbers holds a token
\* twice, whatever the interleaving of draw ticks, game ticks and joins.
C11_NoDuplicateDraw ==
    \A s \in DOMAIN sessions :
        \A i \in 1..Len(sessions[s].drawnNumbers),
           j \in 1..Len(sessions[s].drawnNumbers) :
            i # j => sessions[s].drawnNumbers[i] # sessions[s].drawnNumbers[j]

\* Reached: a session with two live draw timers that has drawn several
\* tokens.
C11_Witness ==
    \E s \in DOMAIN sessions :
        /\ drawIntervals[s] = 2
        /\ Len(sessions[s].drawnNumbers) >= 3

\* C12: a step that finishes a game leaves a winner on the winner list or
\* all 75 numbers drawn; a finished session with an empty winner list has
\* 75 drawn numbers.
C12_EndReasons ==
    [][\A s \in DOMAIN sessions :
          ( /\ sessions[s].gameState # "finished"
            /\ sessions'[s].gameState = "finished" )
          => \/ sessions'[s].winners # <<>>
             \/ Len(sessions'[s].drawnNumbers) >= 75]_vars

\* C13: with its timers firing, a session that is playing is eventually
\* finished with active = false; it is never playing with 75 numbers drawn.
C13_EventuallyFinished ==
    /\ \A s \in ApiSessionIds :
          (s \in DOMAIN sessions /\ sessions[s].gameState = "playing")
          ~> ( /\ s \in DOMAIN sessions
               /\ sessions[s].gameState = "finished"
               /\ ~sessions[s].active )
    /\ [](\A s \in DOMAIN sessions :
            Len(sessions[s].drawnNumbers) >= 75 => sessions[s].gameState # "playing")

\* Reached: all 75 numbers drawn, no winner found, the session finished
\* with an empty winner list and inactive.
C13_Witness ==
    \E s \in DOMAIN sessions :
        /\ Len(sessions[s].drawnNumbers) = 75
        /\ sessions[s].gameState = "finished"
        /\ sessions[s].winners = <<>>
        /\ ~sessions[s].active
        /\ \A i \in 1..Len(sessions[s].players) : ~sessions[s].players[i].hasWon

\* C14: once a session is finished no step changes its gameState or its
\* drawnNumbers, and a timer callback of a finished session cancels its
\* timer.
C14_FinishedTerminal ==
    [][\A s \in DOMAIN sessions :
          sessions[s].gameState = "finished" =>
              /\ sessions'[s].gameState = "finished"
              /\ sessions'[s].drawnNumbers = sessions[s].drawnNumbers
              /\ gameIntervalTick(s) => gameIntervals'[s] = gameIntervals[s] - 1
              /\ (\E c \in DrawColumns, lucky \in Lucky : drawIntervalTick(s, c, lucky))
                    => drawIntervals'[s] = drawIntervals[s] - 1]_vars

\* The 12 lines of a card: its 5 rows, its 5 columns (B, I, N, G, O) and its
\* 2 diagonals, each the set of its cells' tokens (the free cell left out).
CardLines(crd) ==
    LET token(ci, row) == DrawToken(Columns[ci], crd[Columns[ci]][row])
        line(cells)    == {token(p[1], p[2]) : p \in {q \in cells :
                              crd[Columns[q[1]]][q[2]] # FREE}}
    IN  {line({<<ci, row>> : ci \in 1..5}) : row \in 1..5}
        \cup {line({<<ci, row>> : row \in 1..5}) : ci \in 1..5}
        \cup {line({<<i, i>> : i \in 1..5}), line({<<6 - i, i>> : i \in 1..5})}

\* A card wins on a set of tokens: one of its lines is wholly in the set.
HasCompleteLine(crd, tokens) == \E line \in CardLines(crd) : line \subseteq tokens

\* C15: in every state a player is on the session's winner list if and only
\* if one of the player's reserved cards has a complete row, column or
\* diagonal in the numbers drawn so far.
C15_LineBasedWinners ==
    \A s \in DOMAIN sessions :
        \A i \in 1..Len(sessions[s].players) :
            LET player == sessions[s].players[i]
            IN  (\E w \in 1..Len(sessions[s].winners) :
                    sessions[s].winners[w].userId = player.userId)
                <=> (\E c \in Range(player.cardIndices) \cap (0..MaxCardIndex) :
                        HasCompleteLine(PoolCard(c), Range(sessions[s].drawnNumbers)))

\* The tokens of a pattern or of a walked line, the free cell left out.
LineSet(cells) == Range(cells) \ {FreeToken}

\* C16: a call of checkCardForWin returns a boolean, true exactly when one
\* of the card's 12 lines is FREE or marked in every cell, and the 12 lines
\* it tests are the 12 lines of getWinningPatterns.
C16_WinEvaluator ==
    verdict # NoVerdict =>
        /\ verdict = Returned(HasCompleteLine(card, Range(markedNumbers)))
        /\ {LineSet(LineTokens(card, LineCalls[j])) : j \in 1..12}
              = {LineSet(getWinningPatterns(card)[j]) : j \in 1..12}

\* The arrangements of a sequence.
Arrangements(seq) ==
    {[i \in 1..Len(seq) |-> seq[f[i]]] : f \in Permutations(1..Len(seq))}

\* C17: for a fixed card, checkCardForWin returns the same boolean for every
\* arrangement of the same marked tokens.
C17_OrderIndependent ==
    (verdict # NoVerdict /\ Len(markedNumbers) >= 2) =>
        \A p \in Arrangements(markedNumbers) :
            /\ checkCardForWin(card, p).kind = "returned"
            /\ checkCardForWin(card, p) = verdict

\* The players of a session that a step newly flags as winners.
FoundWinners(sessionId) ==
    {i \in 1..Len(sessions[sessionId].players) :
        /\ sessions'[sessionId].players[i].hasWon
        /\ ~sessions[sessionId].players[i].hasWon}

\* The sum of the amounts a step adds to the balances of the session's players.
RECURSIVE Distributed(_, _, _)
Distributed(before, after, i) ==
    IF i > Len(before) THEN <<0, 1>>
    ELSE RatAdd(RatSub(after[i].balance, before[i].balance),
                Distributed(before, after, i + 1))

\* C18: a step that finds w winners among players whose stakes sum to P hands
\* out 0.8*P in all when w > 0 and nothing when w = 0; the winners it records
\* carry 0.8*P/w each, the value of calculatePrizePerWinner(P, w), which is 4
\* for P = 10, w = 2 and 0 for w = 0.
C18_PrizeComputation ==
    [][ /\ calculatePrizePerWinner(10, 2) = <<4, 1>>
        /\ calculatePrizePerWinner(10, 0) = <<0, 1>>
        /\ \A s \in DOMAIN sessions \cap DOMAIN sessions' :
             LET before == sessions[s]
                 after  == sessions'[s]
                 P      == totalPot(before.players)
                 w      == Cardinality(FoundWinners(s))
                 prize  == calculatePrizePerWinner(P, w)
             IN  /\ Distributed(before.players, after.players, 1)
                      = IF w > 0 THEN Rat(8 * P, 10) ELSE <<0, 1>>
                 /\ (w > 0 /\ after.winners # <<>>) =>
                      /\ Len(after.winners) = w
                      /\ after.prizePerWinner = prize
                      /\ \A k \in 1..w : after.winners[k].prize = prize
                      /\ Rat(w * prize[1], prize[2]) = Rat(8 * P, 10)
                 /\ w = 0 =>
                      /\ after.winners = before.winners
                      /\ after.prizePerWinner = before.prizePerWinner
                      /\ after.winners = <<>> => after.prizePerWinner = <<0, 1>>
      ]_vars

C18_Witness ==
    \E s \in DOMAIN sessions :
        /\ sessions[s].gameState = "finished"
        /\ Len(sessions[s].winners) = 2
        /\ sessions[s].prizePerWinner # <<0, 1>>
        /\ \A k \in 1..2 : sessions[s].winners[k].prize = sessions[s].prizePerWinner

\* C19: a step that finishes a game with winners adds prizePerWinner to the
\* wallet balance of every winner, the balance deposit and withdraw read.
C19_SettlementCreditsWallet ==
    [][ \A s \in DOMAIN sessions \cap DOMAIN sessions' :
            (/\ sessions[s].gameState # "finished"
             /\ sessions'[s].gameState = "finished"
             /\ sessions'[s].winners # <<>>) =>
                \A k \in 1..Len(sessions'[s].winners) :
                    LET userId == sessions'[s].winners[k].userId
                    IN  getUserBalance(userBalances', userId)
                          = RatAdd(getUserBalance(userBalances, userId),
                                   sessions'[s].prizePerWinner)
      ]_vars

\* A step in which a suspended deposit or withdrawal completes and nothing of
\* the game or of the event streams changes; only the requester's balance may
\* differ afterwards.
WalletStep ==
    /\ \E r \in RequestSlots :
          /\ walletRequests[r] # NoRequest
          /\ walletRequests'[r] = NoRequest
          /\ \A u \in (DOMAIN userBalances \cup DOMAIN userBalances')
                        \ {walletRequests[r].userId} :
                /\ u \in DOMAIN userBalances \cap DOMAIN userBalances'
                /\ userBalances'[u] = userBalances[u]
    /\ UNCHANGED <<gameVars, sseConnections>>

\* A step in which a game finishes with winners.
SettlementStep ==
    \E s \in DOMAIN sessions \cap DOMAIN sessions' :
        /\ sessions[s].gameState # "finished"
        /\ sessions'[s].gameState = "finished"
        /\ sessions'[s].winners # <<>>

\* C20: the stored wallet balances change only in a step that completes a
\* deposit or a withdrawal or settles a game; joins, session creation,
\* countdown ticks, draws and stream subscriptions leave them as they are.
C20_WalletFrame ==
    [][userBalances' # userBalances => (WalletStep \/ SettlementStep)]_vars

C20_Witness ==
    /\ \E u \in DOMAIN userBalances : userBalances[u] # <<DefaultBalance, 1>>
    /\ \E s \in DOMAIN sessions :
          /\ Len(sessions[s].players) >= 2
          /\ Len(sessions[s].drawnNumbers) >= 1
          /\ sseConnections[s] > 0

\* ------------------------------------------------------------------ stakes
\* Join bodies whose cardCost is, and is not, one unit per selected card.
StakeInputs ==
    { [cardIndices |-> <<0, 1>>, cardCost |-> 2],
      [cardIndices |-> <<0, 1>>, cardCost |-> 1],
      [cardIndices |-> <<2>>,    cardCost |-> 0] }

NextStake ==
    \/ createSessionHandler
    \/ \E u \in WalletPlayers, in \in StakeInputs : joinSessionHandler(u, in, 1)
    \/ \E s \in ApiSessionIds : gameIntervalTick(s)
    \/ \E s \in ApiSessionIds, c \in DrawColumns, lucky \in SUBSET {1, 2} :
          drawIntervalTick(s, c, lucky)
    \/ handleCreateSession
    \/ \E u \in WalletPlayers, in \in StakeInputs : handleJoinSession(u, in)

SpecStake == Init /\ [][NextStake]_vars

\* One unit per card of every player of the list.
RECURSIVE CardsCost(_)
CardsCost(players) ==
    IF players = <<>> THEN 0
    ELSE Len(players[1].cardIndices) + CardsCost(Tail(players))

\* C21: the stake recorded for a player is one unit per card the player
\* selected, and the pot a prize is computed from is the sum of those stakes.
C21_StakeIsCardCount ==
    \A s \in DOMAIN sessions :
        /\ \A i \in 1..Len(sessions[s].players) :
              sessions[s].players[i].cardCost
                 = Len(sessions[s].players[i].cardIndices)
        /\ sessions[s].winners # <<>> =>
              sessions[s].prizePerWinner
                 = Rat(8 * CardsCost(sessions[s].players),
                       10 * Len(sessions[s].winners))

\* ----------------------------------------------------------------- streams
\* The event streams next to the game, without the wallet.
NextStreams ==
    \/ createSessionHandler
    \/ \E u \in WalletPlayers : joinSessionHandler(u, WalletInput, 1)
    \/ \E s \in ApiSessionIds : gameIntervalTick(s)
    \/ \E s \in ApiSessionIds, c \in DrawColumns, lucky \in SUBSET {1, 2} :
          drawIntervalTick(s, c, lucky)
    \/ handleCreateSession
    \/ \E u \in WalletPlayers, in \in JoinInputs : handleJoinSession(u, in)
    \/ \E s \in SessionIds : drawHandler(s)
    \/ \E s \in ApiSessionIds : sessionMonitorTick(s)
    \/ \E s \in SessionIds : handleDrawSSE(s)
    \/ \E s \in SessionIds, c \in DrawColumns :
          \E n \in ColumnNumbers(c) : sseIntervalTick(s, c, n)
    \/ \E s \in SessionIds : clientClose(s)

SpecStreams == Init /\ [][NextStreams]_vars

\* C22: a 'gameEnd' event written to a stream of a finished session carries
\* the session's winners, its prize per winner and its total pot.
C22_GameEndCarriesResult ==
    (/\ resp.op = "sse"
     /\ resp.event = "gameEnd"
     /\ resp.sessionId \in DOMAIN sessions
     /\ sessions[resp.sessionId].gameState = "finished") =>
        /\ {"winners", "prizePerWinner", "totalPot"} \subseteq DOMAIN resp.data
        /\ resp.data.winners = sessions[resp.sessionId].winners
        /\ resp.data.prizePerWinner = sessions[resp.sessionId].prizePerWinner
        /\ resp.data.totalPot = totalPot(sessions[resp.sessionId].players)

\* A step changes something of session s that its subscribers are shown:
\* the countdown, the drawn numbers or the game state.
Mutates(s) ==
    /\ s \in DOMAIN sessions \cap DOMAIN sessions'
    /\ \/ sessions'[s].countdown # sessions[s].countdown
       \/ sessions'[s].drawnNumbers # sessions[s].drawnNumbers
       \/ sessions'[s].gameState # sessions[s].gameState

\* C23: a step that mutates a session with an open stream writes an event to
\* the streams of that session, and writes none to a stream of another
\* session.
C23_BroadcastFanOut ==
    [][\A s \in SessionIds :
          (Mutates(s) /\ sseConnections[s] > 0) =>
              /\ resp'.op = "sse"
              /\ resp'.sessionId = s
      ]_vars

\* The session of a stream is finished, inactive or gone.
SessionOver(s) ==
    \/ s \notin DOMAIN sessions
    \/ ~sessions[s].active
    \/ sessions[s].gameState = "finished"

\* A timer callback of a stream of session s runs.
StreamTick(s) ==
    \/ sessionMonitorTick(s)
    \/ \E c \in DrawColumns : \E n \in ColumnNumbers(c) : sseIntervalTick(s, c, n)

\* C24: the callback of a stream whose session is finished, inactive or gone
\* writes 'gameEnd', ends the stream and cancels its timers; a client that
\* disconnects takes its stream and timers away; and an event other than the
\* opening snapshot is written only to a stream that was open, 'gameEnd'
\* being the last one written to it.
C24_SubscriptionRemoved ==
    [][\A s \in SessionIds :
          /\ (StreamTick(s) /\ SessionOver(s)) =>
                /\ resp'.op = "sse" /\ resp'.event = "gameEnd" /\ resp'.ended
                /\ sseConnections'[s] = sseConnections[s] - 1
          /\ clientClose(s) => sseConnections'[s] = sseConnections[s] - 1
          /\ (resp'.op = "sse" /\ resp'.sessionId = s /\ resp'.event # "session") =>
                /\ sseConnections[s] > 0
                /\ resp'.ended <=> resp'.event = "gameEnd"
                /\ resp'.ended => sseConnections'[s] = sseConnections[s] - 1
      ]_vars

C24_Witness ==
    /\ resp.op = "sse"
    /\ resp.event = "gameEnd"
    /\ resp.ended
    /\ sessions[resp.sessionId].gameState = "finished"
    /\ sseConnections[resp.sessionId] = 0

\* ------------------------------------------------------------------ wallet
\* The wallet alone, one request at a time: amounts that are valid, below
\* the minimum, zero, above the maximum and above the balance.
BankDeposits    == {<<5, 1>>, <<1, 2>>, <<0, 1>>, <<10001, 1>>}
BankWithdrawals == {<<5, 1>>, <<20, 1>>, <<1, 2>>, <<5001, 1>>}

NextBank ==
    \/ \E r \in WalletSlots, u \in WalletUsers, a \in BankDeposits :
          handleDeposit(r, u, a)
    \/ \E r \in WalletSlots : handleDepositAfterDelay(r)
    \/ \E r \in WalletSlots, u \in WalletUsers, a \in BankWithdrawals :
          handleWithdraw(r, u, a)
    \/ \E r \in WalletSlots : handleWithdrawAfterDelay(r)
    \/ \E r \in WalletSlots, u \in WalletUsers, a \in BankDeposits :
          depositHandler(r, u, a)
    \/ \E r \in WalletSlots : depositHandlerAfterDelay(r)
    \/ \E r \in WalletSlots, u \in WalletUsers, a \in BankWithdrawals :
          withdrawHandler(r, u, a)
    \/ \E r \in WalletSlots : withdrawHandlerAfterDelay(r)

SpecBank == Init /\ [][NextBank]_vars

\* A request of the given kind is taken on (suspended at its delay) in slot r.
Accepted(r, op) ==
    /\ walletRequests[r] = NoRequest
    /\ walletRequests'[r] # NoRequest
    /\ walletRequests'[r].op = op

\* The request of the given kind in slot r is completed.
Completed(r, op) ==
    /\ walletRequests[r] # NoRequest
    /\ walletRequests[r].op = op
    /\ walletRequests'[r] = NoRequest

\* C25: a deposit is taken on only with 1 <= amount <= 10000; a deposit that
\* is answered 400 leaves the balances as they are; a deposit completed on
\* balance b answers 200 with newBalance = b + amount and stores it; 5 on the
\* default balance gives 15.
C25_Deposit ==
    [][ /\ RatAdd(getUserBalance(<< >>, 1), <<5, 1>>) = <<15, 1>>
        /\ \A r \in RequestSlots :
            /\ Accepted(r, "deposit") =>
                  /\ ~RatLess(walletRequests'[r].amount, <<MinDeposit, 1>>)
                  /\ ~RatLess(<<MaxDeposit, 1>>, walletRequests'[r].amount)
            /\ Completed(r, "deposit") =>
                  LET req == walletRequests[r]
                      b   == getUserBalance(userBalances, req.userId)
                  IN  /\ resp'.op = "deposit" /\ resp'.status = 200
                      /\ resp'.newBalance = RatAdd(b, req.amount)
                      /\ userBalances'[req.userId] = RatAdd(b, req.amount)
        /\ (resp'.op = "deposit" /\ resp'.status = 400) =>
              userBalances' = userBalances
      ]_vars

\* C26: a withdrawal is taken on only with 1 <= amount <= 5000 and amount
\* within the balance; a withdrawal that is answered 400 leaves the balances
\* as they are, and when the amount exceeds the balance the answer carries
\* the current balance and the requested amount; a withdrawal completed on
\* balance b stores b - amount.
C26_Withdraw ==
    [][ /\ \A r \in RequestSlots :
            /\ Accepted(r, "withdraw") =>
                  LET req == walletRequests'[r]
                  IN  /\ ~RatLess(req.amount, <<MinWithdrawal, 1>>)
                      /\ ~RatLess(<<MaxWithdrawal, 1>>, req.amount)
                      /\ ~RatLess(getUserBalance(userBalances, req.userId), req.amount)
            /\ Completed(r, "withdraw") =>
                  LET req == walletRequests[r]
                      b   == getUserBalance(userBalances, req.userId)
                  IN  /\ resp'.op = "withdraw" /\ resp'.status = 200
                      /\ userBalances'[req.userId] = RatSub(b, req.amount)
        /\ (resp'.op = "withdraw" /\ resp'.status = 400) =>
              /\ userBalances' = userBalances
              /\ resp'.text = "Insufficient balance" =>
                    /\ \E u \in WalletUsers :
                          resp'.currentBalance = getUserBalance(userBalances, u)
                    /\ RatLess(resp'.currentBalance, resp'.requestedAmount)
      ]_vars

\* C27: the balance read for a user with a stored balance is the stored
\* amount, 0 included; the default is read for users with none stored.
C27_StoredBalanceRead ==
    \A u \in WalletUsers :
        getUserBalance(userBalances, u) =
            IF u \in DOMAIN userBalances THEN userBalances[u]
            ELSE <<DefaultBalance, 1>>

\* Two wallet requests of one user in flight at a time, each of 5.
RaceAmounts == {<<5, 1>>}

NextRace ==
    \/ \E r \in RequestSlots, u \in WalletUsers, a \in RaceAmounts :
          handleDeposit(r, u, a)
    \/ \E r \in RequestSlots : handleDepositAfterDelay(r)
    \/ \E r \in RequestSlots, u \in WalletUsers, a \in RaceAmounts :
          handleWithdraw(r, u, a)
    \/ \E r \in RequestSlots : handleWithdrawAfterDelay(r)
    \/ \E r \in RequestSlots, u \in WalletUsers, a \in RaceAmounts :
          depositHandler(r, u, a)
    \/ \E r \in RequestSlots : depositHandlerAfterDelay(r)
    \/ \E r \in RequestSlots, u \in WalletUsers, a \in RaceAmounts :
          withdrawHandler(r, u, a)
    \/ \E r \in RequestSlots : withdrawHandlerAfterDelay(r)

SpecRace == Init /\ [][NextRace]_vars

\* The request suspended in slot r read the balance before its delay, and
\* the balance has been replaced since.
StaleRead(r) ==
    /\ walletRequests[r] # NoRequest
    /\ deployment = "api" \/ walletRequests[r].op = "withdraw"
    /\ walletRequests[r].currentBalance
          # getUserBalance(userBalances, walletRequests[r].userId)

\* The balance after the request in slot r is applied to balance b.
Applied(r, b) ==
    IF walletRequests[r].op = "deposit"
    THEN RatAdd(b, walletRequests[r].amount)
    ELSE RatSub(b, walletRequests[r].amount)

\* C28: a request that read the balance before its delay and completes after
\* another request has replaced the balance answers 200 and stores its own
\* result over the other's: the stored balance is not what the two requests
\* give one after the other.
C28_LostUpdate ==
    [][\A r \in RequestSlots :
          (StaleRead(r) /\ walletRequests'[r] = NoRequest) =>
              LET req == walletRequests[r]
              IN  /\ resp'.status = 200
                  /\ userBalances'[req.userId] = Applied(r, req.currentBalance)
                  /\ userBalances'[req.userId]
                        # Applied(r, getUserBalance(userBalances, req.userId))
      ]_vars

\* One request has been answered 200 and stored its result while the other,
\* suspended, holds the balance from before.
C28_Witness ==
    /\ resp.op \in {"deposit", "withdraw"}
    /\ resp.status = 200
    /\ \E r \in RequestSlots :
          /\ StaleRead(r)
          /\ resp.newBalance = getUserBalance(userBalances, walletRequests[r].userId)

\* C29: a card index reserved by a user stays reserved by that user in every
\* later state.
C29_ReservationsKept ==
    [][\A i \in DOMAIN cardReservations :
          /\ i \in DOMAIN cardReservations'
          /\ cardReservations'[i] = cardReservations[i]
      ]_vars

\* Reservations of two users stand and a join for a reserved card has just
\* been refused.
C29_Witness ==
    /\ \E i, j \in DOMAIN cardReservations : cardReservations[i] # cardReservations[j]
    /\ resp.op = "join"
    /\ resp.status = 400
    /\ resp.text = "Card is already taken by another player"

\* C30: a create-session request is answered 200 and stores, under an id no
\* session had, a session that is waiting with countdown 60, no players, no
\* drawn numbers, minPlayers 2, maxPlayers 50 and active; every session
\* stored before is left as it was.
C30_CreateSession ==
    [][(createSessionHandler \/ handleCreateSession) =>
          /\ resp'.op = "create"
          /\ resp'.status = 200
          /\ resp'.sessionId \notin DOMAIN sessions
          /\ DOMAIN sessions' = DOMAIN sessions \cup {resp'.sessionId}
          /\ \A s \in DOMAIN sessions : sessions'[s] = sessions[s]
          /\ LET session == sessions'[resp'.sessionId]
             IN  /\ session.id = resp'.sessionId
                 /\ session.gameState = "waiting"
                 /\ session.countdown = 60
                 /\ session.players = <<>>
                 /\ session.drawnNumbers = <<>>
                 /\ session.minPlayers = 2
                 /\ session.maxPlayers = 50
                 /\ session.active
      ]_vars

\* A session has just been created next to one that has a player.
C30_Witness ==
    /\ resp.op = "create"
    /\ resp.status = 200
    /\ resp.sessionId \in DOMAIN sessions
    /\ sessions[resp.sessionId].players = <<>>
    /\ \E s \in DOMAIN sessions \ {resp.sessionId} : sessions[s].players # <<>>

\* C31: the gameState a successful join is answered with is the gameState
\* the session is stored with after that join.
C31_JoinResponseState ==
    (/\ resp.op = "join"
     /\ resp.status = 200
     /\ resp.text = "Joined session successfully") =>
        /\ resp.sessionId \in DOMAIN sessions
        /\ resp.gameState = sessions[resp.sessionId].gameState

\* ------------------------------------------------- the draw sequence
\* usedNumbers.push(draw)
push(used, token) == used (+) SetToBag({token})

\* One turn of the loop of generateCompleteDrawSequence: the call, and the
\* push of what it returned when that is a token.
generateCompleteDrawSequenceStep ==
    /\ BagCardinality(usedNumbers) < AllNumbers
    /\ \E token \in generateRandomDraw(usedNumbers) :
        /\ randomDraw' = token
        /\ usedNumbers' = IF token \in {Null, RangeError} THEN usedNumbers
                          ELSE push(usedNumbers, token)
    /\ UNCHANGED <<gameVars, walletVars, sseConnections, resp, evaluatorVars, validation>>

\* A call of generateRandomDraw by a caller that leaves the list as it is.
generateRandomDrawCall ==
    /\ \E token \in generateRandomDraw(usedNumbers) : randomDraw' = token
    /\ UNCHANGED <<gameVars, walletVars, sseConnections, resp, evaluatorVars, validation,
                   usedNumbers>>

NextDraws == generateCompleteDrawSequenceStep \/ generateRandomDrawCall

SpecDraws == Init /\ [][NextDraws]_vars

\* The 75 tokens there are.
PossibleTokens ==
    UNION {{DrawToken(letter, num) : num \in ColumnNumbers(letter)} : letter \in Range(Columns)}

\* C32: with each result fed back into the used list, every call made with
\* fewer than 75 tokens used returns a token that is not in the list, the
\* list never holds a token twice, and with 75 tokens used the list holds
\* every possible token and the call returns null.
C32_DrawSequence ==
    [][NextDraws =>
        /\ BagCardinality(usedNumbers) < AllNumbers =>
            /\ randomDraw' \in PossibleTokens \ DOMAIN usedNumbers
            /\ generateCompleteDrawSequenceStep =>
                /\ usedNumbers' = push(usedNumbers, randomDraw')
                /\ BagCardinality(usedNumbers') = BagCardinality(usedNumbers) + 1
                /\ \A token \in DOMAIN usedNumbers' : usedNumbers'[token] = 1
        /\ BagCardinality(usedNumbers) = AllNumbers =>
            /\ DOMAIN usedNumbers = PossibleTokens
            /\ Cardinality(DOMAIN usedNumbers) = AllNumbers
            /\ randomDraw' = Null]_vars

\* Reached: 75 tokens have been fed back and the next call has returned null.
C32_Witness ==
    /\ BagCardinality(usedNumbers) = AllNumbers
    /\ randomDraw = Null

\* --------------------------------------------- lib/bingo.js: new cards
\* generateRange(start, end)
generateRange(start, end) == [i \in 1..(end - start + 1) |-> start + i - 1]

\* The values of Math.random() the model follows, as fractions; a shuffle
\* is followed with one value for all of its calls.
RandomValues == {<<0, 1>>, <<1, 2>>, <<14, 15>>}

\* Math.floor(Math.random() * (i + 1))
RandomBelow(random, i) == (random[1] * (i + 1)) \div random[2]

\* shuffled[i] = shuffled[j]: the element is copied, not exchanged.
SwapCopies(shuffled, i, j) == [shuffled EXCEPT ![i + 1] = shuffled[j + 1]]

\* [shuffled[i], shuffled[j]] = [shuffled[j], shuffled[i]], i and j counted from 0.
Swap(shuffled, i, j) ==
    [shuffled EXCEPT ![i + 1] = shuffled[j + 1], ![j + 1] = shuffled[i + 1]]

\* for (let i = shuffled.length - 1; i > 0; i--) swap i with a random j <= i
RECURSIVE shuffleFrom(_, _, _)
shuffleFrom(shuffled, i, random) ==
    IF i <= 0 THEN shuffled
    ELSE shuffleFrom(Swap(shuffled, i, RandomBelow(random, i)), i - 1, random)

\* shuffleArray(array)
shuffleArray(array, random) == shuffleFrom(array, Len(array) - 1, random)

\* array.slice(0, end)
slice(array, end) == SubSeq(array, 1, end)

\* generateBingoCard(), randoms giving the Math.random() value of each
\* column's shuffle.
generateBingoCard(randoms) ==
    LET drawn == [c \in Range(Columns) |->
                    slice(shuffleArray(generateRange(ColumnMin(c), ColumnMin(c) + 14),
                                       randoms[c]), 5)]
    IN  [drawn EXCEPT !["N"][3] = FREE]

\* validateBingoCard(card): the errors it collects, kept as a set since only
\* their number is looked at, and isValid.
validateBingoCard(crd) ==
    LET lengthErrors == {<<"must have exactly 5 numbers", c, 0>> :
                            c \in {c \in Range(Columns) : Len(crd[c]) # 5}}
        rangeErrors  == UNION {{<<"must be between", c, index>> :
                                  index \in {r \in 1..Len(crd[c]) :
                                              /\ crd[c][r] # FREE
                                              /\ crd[c][r] \notin ColumnNumbers(c)}} :
                                c \in Range(Columns)}
        centerErrors == IF Len(crd["N"]) < 3 \/ crd["N"][3] # FREE
                        THEN {<<"N3 (center) must be FREE", "N", 3>>} ELSE {}
        errors       == lengthErrors \cup rangeErrors \cup centerErrors
    IN  [isValid |-> errors = {}, errors |-> errors]

\* A call of generateBingoCard.
newCard ==
    /\ \E randoms \in [Range(Columns) -> RandomValues] :
        card' = generateBingoCard(randoms)
    /\ validation' = NoValidation
    /\ UNCHANGED <<gameVars, walletVars, sseConnections, resp, markedNumbers, verdict,
                   sequenceVars>>

\* A call of validateBingoCard with the card.
validate ==
    /\ validation' = validateBingoCard(card)
    /\ UNCHANGED <<gameVars, walletVars, sseConnections, resp, evaluatorVars, sequenceVars>>

NextCards == newCard \/ validate

InitCards ==
    /\ InitProcess
    /\ deployment = "api"
    /\ card = PoolCard(0)

SpecCards == InitCards /\ [][NextCards]_vars

\* The five values of a column, the centre cell left out.
ColumnValues(crd, c) == {crd[c][r] : r \in {r \in 1..Len(crd[c]) : ~(c = "N" /\ r = 3)}}

\* C33: a card of generateBingoCard has five cells per column, the values
\* of a column are pairwise distinct and within the column's range, the
\* only FREE cell is N[2], and validateBingoCard finds the card valid.
C33_GeneratedCardValid ==
    /\ \A c \in Range(Columns) :
        /\ Len(card[c]) = 5
        /\ ColumnValues(card, c) \subseteq ColumnNumbers(c)
        /\ Cardinality(ColumnValues(card, c)) = IF c = "N" THEN 4 ELSE 5
    /\ card["N"][3] = FREE
    /\ validateBingoCard(card).isValid
    /\ validation # NoValidation =>
        /\ validation.isValid
        /\ validation.errors = {}

\* Reached: a card made by a shuffle that moved its numbers has been
\* validated and found valid.
C33_Witness ==
    /\ card # PoolCard(0)
    /\ card["B"][1] # 1
    /\ validation.isValid

\* C34: a draw tick of a session that is playing and active adds exactly
\* one token to drawnNumbers, and it is the tick of the session's only
\* draw timer.
C34_OneDrawPerTick ==
    [][\A s \in DOMAIN sessions :
          ( /\ sessions[s].active
            /\ sessions[s].gameState = "playing"
            /\ drawStep(s) )
          => /\ drawIntervals[s] = 1
             /\ s \in DOMAIN sessions'
             /\ Len(sessions'[s].drawnNumbers) = Len(sessions[s].drawnNumbers) + 1
             /\ SubSeq(sessions'[s].drawnNumbers, 1, Len(sessions[s].drawnNumbers))
                    = sessions[s].drawnNumbers]_vars

\* ------------------------------------------------ timers and deletion
\* deleteSession(sessionId) of api/create-session.js: global.sessions.delete.
deleteSession(sessionId) ==
    /\ deployment = "api"
    /\ sessionId \in DOMAIN sessions
    /\ sessions' = [s \in DOMAIN sessions \ {sessionId} |-> sessions[s]]
    /\ UNCHANGED <<walletVars, sseConnections, libraryVars, deployment, noIdJoined,
                   cardReservations, gameLoops, gameIntervals, drawIntervals, resp>>

\* Sessions that are created, joined, played and deleted while their timers
\* fire.  A session id is never generated twice, so a new session meets no
\* timer of an earlier one.
NextTimers ==
    \/ /\ \A s \in ApiSessionIds : gameIntervals[s] = 0 /\ drawIntervals[s] = 0
       /\ createSessionHandler
    \/ \E u \in WalletPlayers : joinSessionHandler(u, WalletInput, 1)
    \/ \E s \in ApiSessionIds : gameIntervalTick(s)
    \/ \E s \in ApiSessionIds : drawStep(s)
    \/ \E s \in ApiSessionIds : deleteSession(s)

SpecTimers == InitGame /\ [][NextTimers]_vars

\* The session is gone or inactive.
Stopped(s) == s \notin DOMAIN sessions \/ ~sessions[s].active

\* C35: a game-loop or draw callback that finds its session missing or
\* inactive cancels its own timer and writes no session; a session that is
\* missing stays missing over every callback.
C35_TimerStopsItself ==
    [][\A s \in ApiSessionIds :
          /\ (Stopped(s) /\ gameIntervalTick(s)) =>
                /\ gameIntervals'[s] = gameIntervals[s] - 1
                /\ sessions' = sessions
          /\ (Stopped(s) /\ drawStep(s)) =>
                /\ drawIntervals'[s] = drawIntervals[s] - 1
                /\ sessions' = sessions
          /\ ( /\ s \notin DOMAIN sessions
               /\ gameIntervalTick(s) \/ drawStep(s) ) => s \notin DOMAIN sessions']_vars

\* Reached: the session was deleted while playing; one of its two game-loop
\* timers has fired since and is cancelled, the session is still missing.
C35_Witness ==
    \E s \in ApiSessionIds :
        /\ s \notin DOMAIN sessions
        /\ gameIntervals[s] = 1
        /\ drawIntervals[s] = 1

\* C36: the winner list and prizePerWinner of a session finished with
\* winners are changed by no step, and a step that finds winners leaves the
\* session finished with those winners and their prize on record.
C36_WinnersKept ==
    [][\A s \in DOMAIN sessions \cap DOMAIN sessions' :
          /\ ( /\ sessions[s].gameState = "finished"
               /\ sessions[s].winners # <<>> )
             => /\ sessions'[s].winners = sessions[s].winners
                /\ sessions'[s].prizePerWinner = sessions[s].prizePerWinner
          /\ FoundWinners(s) # {}
             => /\ sessions'[s].gameState = "finished"
                /\ {sessions'[s].winners[k].userId : k \in 1..Len(sessions'[s].winners)}
                      = {sessions'[s].players[i].userId : i \in FoundWinners(s)}
                /\ sessions'[s].prizePerWinner
                      = calculatePrizePerWinner(totalPot(sessions[s].players),
                                                Cardinality(FoundWinners(s)))]_vars

\* C37: in every state, a session has active false exactly when its
\* gameState is finished.
C37_ActiveUntilFinished ==
    \A s \in DOMAIN sessions :
        (~sessions[s].active) <=> (sessions[s].gameState = "finished")

\* C38: a session's countdown is an integer from 0 to 60 and is 0 while the
\* session is playing or finished, and no step raises it.
C38_CountdownBounded ==
    /\ [](\A s \in DOMAIN sessions :
            /\ sessions[s].countdown \in 0..countdownStart
            /\ sessions[s].gameState \in {"playing", "finished"} =>
                  sessions[s].countdown = 0)
    /\ [][\A s \in DOMAIN sessions \cap DOMAIN sessions' :
            sessions'[s].countdown <= sessions[s].countdown]_vars

\* Reached: a session that was taken back to countdown by a third join is
\* playing again, with two game-loop timers and two draw timers alive and
\* countdown 0.
C38_Witness ==
    \E s \in DOMAIN sessions :
        /\ sessions[s].gameState = "playing"
        /\ sessions[s].countdown = 0
        /\ Len(sessions[s].players) = 3
        /\ gameIntervals[s] = 2
        /\ drawIntervals[s] = 2

\* The balance on record for a user: the stored amount, or the initial
\* balance of a user with none stored.
OnRecord(B, userId) ==
    IF userId \in DOMAIN B THEN B[userId] ELSE <<DefaultBalance, 1>>

\* C39: no stored balance is negative; a withdrawal answered 200 lowers the
\* balance on record by at least its amount and a deposit answered 200
\* raises it by at most its amount, so that what a user has withdrawn never
\* exceeds the initial balance plus what the user has deposited.
C39_NoOverdraft ==
    /\ [](\A u \in DOMAIN userBalances : ~RatLess(userBalances[u], <<0, 1>>))
    /\ [][\A r \in RequestSlots :
            LET req == walletRequests[r]
                b   == OnRecord(userBalances, req.userId)
                b1  == OnRecord(userBalances', req.userId)
            IN  /\ (Completed(r, "withdraw") /\ resp'.status = 200) =>
                      ~RatLess(RatSub(b, req.amount), b1)
                /\ (Completed(r, "deposit") /\ resp'.status = 200) =>
                      ~RatLess(RatAdd(b, req.amount), b1)]_vars

\* C40: when a deposit or a withdrawal is answered 200 with newBalance b,
\* the balance the next request of that user reads is b.
C40_ReadYourWrites ==
    [][\A r \in RequestSlots :
          ( /\ walletRequests[r] # NoRequest
            /\ walletRequests'[r] = NoRequest
            /\ resp'.status = 200 )
          => getUserBalance(userBalances', walletRequests[r].userId) = resp'.newBalance]_vars

====
